---------------------------- MODULE Spec2Model ----------------------------
(***************************************************************************)
(* A model of the PayPal NVP client of src/paypal.go.                      *)
(*                                                                         *)
(* A Go string is the sequence of its bytes, each a number in 0 .. 255, so *)
(* that formatting, escaping, unescaping, lower-casing and number parsing  *)
(* are computed on any text, printable or not.  Bytes("...") is the byte   *)
(* sequence of a literal.  A url.Values is a function from the keys        *)
(* present to the sequence of values of each key.  A float64 is the record *)
(* of its sign, exponent and fraction bits.  Amounts handed to the request *)
(* builders are whole numbers of cents (a float64 holding a two-decimal    *)
(* amount).                                                                *)
(***************************************************************************)
EXTENDS Integers, Sequences, FiniteSets, TLC

(***************************************************************************)
(* Bounds of the model.                                                    *)
(***************************************************************************)
NProcs == 2        \* goroutines sharing one client
MaxReuse == 2      \* times one caller-held parameter set is handed to PerformRequest
MaxGoods == 2      \* longest line-item sequence handed to a builder
MaxPairs == 2      \* most fragments joined into a response body

Procs == 1 .. NProcs

(***************************************************************************)
(* The state: one client shared by the goroutines of Procs.  Each          *)
(* goroutine makes one call at a time:                                     *)
(*   "idle" -> no call in progress                                         *)
(*   "wait" -> PerformRequest has posted the request and PostForm has not  *)
(*             returned                                                    *)
(*   "read" -> PostForm returned a response and ioutil.ReadAll has not     *)
(*             returned its body                                           *)
(*   "done" -> PerformRequest returned ret[p]                              *)
(***************************************************************************)
VARIABLES
    client,       \* the PayPalClient
    pc,           \* the position of each goroutine
    call,         \* the operation each goroutine called, with its arguments
    values,       \* the url.Values its call works on (the caller's own map
                  \* when the caller called PerformRequest itself)
    given,        \* that parameter set as it was when PerformRequest was entered
    uses,         \* how many times the caller handed that map to PerformRequest
    posted,       \* the POSTs the call has issued: endpoint and form
    conn,         \* the outcome of the call's HTTP exchange
    ret,          \* what the call returned: (*PayPalResponse, error)
    redirectUrl,  \* the result of CheckoutUrl on the returned response
    message,      \* the result of Error on the returned error
    payment,      \* the caller's PayPalPaymentResponse
    populates     \* how many times Populate ran on it with the returned Values

vars == <<client, pc, call, values, given, uses, posted, conn, ret,
          redirectUrl, message, payment, populates>>

(***************************************************************************)
(* String literals and bytes.                                              *)
(***************************************************************************)
\* The characters a literal of the source is written with, in code order:
\* 0x20 .. 0x5F and 0x61 .. 0x7E.
AsciiLow == " !\"#$%&'()*+,-./0123456789:;<=>?@ABCDEFGHIJKLMNOPQRSTUVWXYZ[\\]^_"
AsciiHigh == "abcdefghijklmnopqrstuvwxyz{|}~"

\* The byte of each of those characters.
Code ==
    [c \in {SubSeq(AsciiLow, i, i) : i \in 1 .. Len(AsciiLow)}
             \cup {SubSeq(AsciiHigh, i, i) : i \in 1 .. Len(AsciiHigh)} |->
        IF \E i \in 1 .. Len(AsciiLow) : SubSeq(AsciiLow, i, i) = c
        THEN 31 + (CHOOSE i \in 1 .. Len(AsciiLow) : SubSeq(AsciiLow, i, i) = c)
        ELSE 96 + (CHOOSE i \in 1 .. Len(AsciiHigh) : SubSeq(AsciiHigh, i, i) = c)]

\* The byte of a character literal, 'c' in the source.
Byte(c) == Code[c]

\* The bytes of a string literal, "..." in the source.
Bytes(s) == <<>> \o [i \in 1 .. Len(s) |-> Code[SubSeq(s, i, i)]]

\* The 1-based position of the first byte c among the bytes lo .. hi of s, 0
\* when there is none.
IndexIn(s, c, lo, hi) ==
    IF \E i \in lo .. hi : s[i] = c
    THEN CHOOSE i \in lo .. hi : s[i] = c /\ \A j \in lo .. i - 1 : s[j] # c
    ELSE 0

\* strings.IndexByte, 1-based (0 when absent).
IndexOf(s, c) == IndexIn(s, c, 1, Len(s))

\* strings.Contains for a one-byte substring.
Contains(s, c) == IndexOf(s, c) # 0

IsDigit(c) == c \in 48 .. 57

\* ishex of net/url.
IsHex(c) == c \in 48 .. 57 \/ c \in 65 .. 70 \/ c \in 97 .. 102

\* unhex of net/url: the value of one hexadecimal digit.
UnHex(c) ==
    IF c \in 48 .. 57 THEN c - 48
    ELSE IF c \in 97 .. 102 THEN c - 97 + 10
    ELSE IF c \in 65 .. 70 THEN c - 65 + 10
    ELSE 0

\* The upper-case hexadecimal digit of a value below 16 ("0123456789ABCDEF"[n]).
UpperHex(n) == IF n < 10 THEN 48 + n ELSE 65 + n - 10

(***************************************************************************)
(* strings.ToLower(s) == lit, for a literal lit of lower-case ASCII        *)
(* letters, which is how the source uses ToLower.  ASCII text is lowered   *)
(* byte by byte.  Text holding a byte of 0x80 or more is lowered rune by   *)
(* rune with unicode.ToLower, and the only runes beyond ASCII that lower   *)
(* to an ASCII letter are U+0130 (bytes C4 B0), to i, and U+212A (bytes E2 *)
(* 84 AA), to k; every other rune, and every byte that is not valid UTF-8  *)
(* (it becomes U+FFFD), leaves a result that is not ASCII.                 *)
(***************************************************************************)
LowerByte(c) == IF c \in 65 .. 90 THEN c + 32 ELSE c

RECURSIVE ToLowerEquals(_, _)
ToLowerEquals(s, lit) ==
    IF Len(s) = 0 THEN Len(lit) = 0
    ELSE IF Len(lit) = 0 THEN FALSE
    ELSE IF s[1] < 128
         THEN LowerByte(s[1]) = lit[1] /\ ToLowerEquals(Tail(s), Tail(lit))
    ELSE IF Len(s) >= 2 /\ s[1] = 196 /\ s[2] = 176
         THEN lit[1] = Byte("i") /\ ToLowerEquals(SubSeq(s, 3, Len(s)), Tail(lit))
    ELSE IF Len(s) >= 3 /\ s[1] = 226 /\ s[2] = 132 /\ s[3] = 170
         THEN lit[1] = Byte("k") /\ ToLowerEquals(SubSeq(s, 4, Len(s)), Tail(lit))
    ELSE FALSE

(***************************************************************************)
(* fmt.Sprintf as the source uses it.                                      *)
(***************************************************************************)
\* The decimal digits of a natural number.
RECURSIVE NatStr(_)
NatStr(n) ==
    IF n < 10 THEN <<48 + n>>
    ELSE Append(NatStr(n \div 10), 48 + (n % 10))

\* fmt.Sprintf("%d", n).
Itoa(n) == IF n < 0 THEN <<Byte("-")>> \o NatStr(-n) ELSE NatStr(n)

\* fmt.Sprintf("%.2f", a) for an amount a of whole cents.
Format2f(cents) ==
    LET abs == IF cents < 0 THEN -cents ELSE cents
        frac == abs % 100
    IN  (IF cents < 0 THEN <<Byte("-")>> ELSE <<>>)
          \o NatStr(abs \div 100) \o <<Byte("."), 48 + (frac \div 10), 48 + (frac % 10)>>

\* fmt.Sprintf("%s%d", name, i): the indexed field name of line item i.
Field(name, i) == Bytes(name) \o Itoa(i)

(***************************************************************************)
(* net/url: escaping, unescaping, url.Values and ParseQuery.               *)
(***************************************************************************)
\* strings.Cut(s, sep) for a one-byte separator.
Cut(s, sep) ==
    LET i == IndexOf(s, sep)
    IN  IF i = 0 THEN [before |-> s, after |-> <<>>, found |-> FALSE]
        ELSE [before |-> SubSeq(s, 1, i - 1),
              after  |-> SubSeq(s, i + 1, Len(s)),
              found  |-> TRUE]

\* The first position in lo .. hi of s that is a malformed %-escape, a %
\* that two hexadecimal digits do not follow, 0 when there is none.
\* Whether the byte at i of s is a % that two hexadecimal digits do not
\* follow.
BadEscapeAt(s, i) ==
    s[i] = Byte("%") /\ (i + 2 > Len(s) \/ ~IsHex(s[i + 1]) \/ ~IsHex(s[i + 2]))

FirstBadEscape(s, lo, hi) ==
    IF \E i \in lo .. hi : BadEscapeAt(s, i)
    THEN CHOOSE i \in lo .. hi : BadEscapeAt(s, i) /\ \A j \in lo .. i - 1 : ~BadEscapeAt(s, j)
    ELSE 0

\* The first malformed %-escape of s (at most three bytes), empty when
\* every % is followed by two hexadecimal digits.  The scan of unescape
\* steps over the two digits of a well-formed escape, which are no %, so the
\* first % it rejects is the first % of s that two digits do not follow.
BadEscape(s) ==
    LET i == FirstBadEscape(s, 1, Len(s))
    IN  IF i = 0 THEN <<>>
        ELSE SubSeq(s, i, IF i + 2 > Len(s) THEN Len(s) ELSE i + 2)

\* What the bytes lo .. hi of a well-formed escaped string s decode to: %XX
\* is the byte XX, the two digits after a % are part of it, + is a space.
RECURSIVE DecodeRange(_, _, _)
DecodeRange(s, lo, hi) ==
    IF lo > hi THEN <<>>
    ELSE IF lo = hi
         THEN (IF s[lo] = Byte("%") THEN <<16 * UnHex(s[lo + 1]) + UnHex(s[lo + 2])>>
               ELSE IF \/ (lo > 1 /\ s[lo - 1] = Byte("%"))
                       \/ (lo > 2 /\ s[lo - 2] = Byte("%")) THEN <<>>
               ELSE IF s[lo] = Byte("+") THEN <<Byte(" ")>>
               ELSE <<s[lo]>>)
    ELSE DecodeRange(s, lo, (lo + hi) \div 2) \o DecodeRange(s, ((lo + hi) \div 2) + 1, hi)

\* The decoding of a well-formed escaped string; without a % it keeps its
\* length.
Decode(s) ==
    IF \E i \in 1 .. Len(s) : s[i] = Byte("%") THEN DecodeRange(s, 1, Len(s))
    ELSE <<>> \o [i \in 1 .. Len(s) |-> IF s[i] = Byte("+") THEN Byte(" ") ELSE s[i]]

\* url.QueryUnescape.
QueryUnescape(s) ==
    IF BadEscape(s) # <<>> THEN [ok |-> FALSE, str |-> <<>>, bad |-> BadEscape(s)]
    ELSE [ok |-> TRUE, str |-> Decode(s), bad |-> <<>>]

\* shouldEscape of net/url in query-component mode.
ShouldEscape(c) ==
    ~(c \in 65 .. 90 \/ c \in 97 .. 122 \/ IsDigit(c) \/ c = Byte("-") \/ c = Byte("_")
        \/ c = Byte(".") \/ c = Byte("~"))

\* escape of net/url for the bytes lo .. hi of s: a space is +, a byte to
\* escape is %XX.
RECURSIVE EscapeRange(_, _, _)
EscapeRange(s, lo, hi) ==
    IF lo > hi THEN <<>>
    ELSE IF lo = hi
         THEN (IF s[lo] = Byte(" ") THEN <<Byte("+")>>
               ELSE IF ShouldEscape(s[lo])
                    THEN <<Byte("%"), UpperHex(s[lo] \div 16), UpperHex(s[lo] % 16)>>
               ELSE <<s[lo]>>)
    ELSE EscapeRange(s, lo, (lo + hi) \div 2) \o EscapeRange(s, ((lo + hi) \div 2) + 1, hi)

\* url.QueryEscape.
QueryEscape(s) == EscapeRange(s, 1, Len(s))

\* url.Values{}.
EmptyValues == [k \in {} |-> <<>>]

\* Values.Get: the first value of key, "" when there is none.
Get(v, key) == IF key \in DOMAIN v /\ Len(v[key]) > 0 THEN v[key][1] ELSE <<>>

\* Values.Set: key holds value alone.
Set(v, key, value) == [k \in DOMAIN v \cup {key} |-> IF k = key THEN <<value>> ELSE v[k]]

\* Values.Add: value is appended to the values of key.
Add(v, key, value) ==
    [k \in DOMAIN v \cup {key} |->
        IF k = key
        THEN (IF key \in DOMAIN v THEN Append(v[key], value) ELSE <<value>>)
        ELSE v[k]]

\* The errors of the model.  kind "nil" is no error.
NilError == [kind |-> "nil"]
EscapeError(bad) == [kind |-> "EscapeError", text |-> bad]

\* parseQuery of net/url: the segments between & are taken in order; a
\* segment holding a semicolon is dropped and makes the error the semicolon
\* error; an empty segment is skipped; a segment whose key or value does not
\* unescape is dropped and is the error when there is none yet.
RECURSIVE parseQuery(_, _, _)
parseQuery(m, err, query) ==
    IF Len(query) = 0 THEN [values |-> m, err |-> err]
    ELSE LET seg == Cut(query, Byte("&"))
             kv  == Cut(seg.before, Byte("="))
             key == QueryUnescape(kv.before)
             val == QueryUnescape(kv.after)
         IN  IF Contains(seg.before, Byte(";"))
             THEN parseQuery(m, [kind |-> "errorString",
                                 text |-> Bytes("invalid semicolon separator in query")],
                             seg.after)
             ELSE IF Len(seg.before) = 0 THEN parseQuery(m, err, seg.after)
             ELSE IF ~key.ok
                  THEN parseQuery(m, IF err = NilError THEN EscapeError(key.bad) ELSE err,
                                  seg.after)
             ELSE IF ~val.ok
                  THEN parseQuery(m, IF err = NilError THEN EscapeError(val.bad) ELSE err,
                                  seg.after)
             ELSE parseQuery(Add(m, key.str, val.str), err, seg.after)

\* url.ParseQuery.
ParseQuery(query) == parseQuery(EmptyValues, NilError, query)

\* The first position in lo .. hi where a and b differ, 0 when there is
\* none.
FirstDiff(a, b, lo, hi) ==
    IF \E i \in lo .. hi : a[i] # b[i]
    THEN CHOOSE i \in lo .. hi : a[i] # b[i] /\ \A j \in lo .. i - 1 : a[j] = b[j]
    ELSE 0

\* Go's order of strings: byte by byte, a proper prefix first.
StrLess(a, b) ==
    LET i == FirstDiff(a, b, 1, IF Len(a) < Len(b) THEN Len(a) ELSE Len(b))
    IN  IF i = 0 THEN Len(a) < Len(b) ELSE a[i] < b[i]

\* key=value&key=value for the values of one key, in order.
RECURSIVE EncodeKey(_, _)
EncodeKey(key, vals) ==
    IF Len(vals) = 0 THEN <<>>
    ELSE QueryEscape(key) \o <<Byte("=")>> \o QueryEscape(Head(vals))
           \o (IF Len(vals) > 1 THEN <<Byte("&")>> \o EncodeKey(key, Tail(vals)) ELSE <<>>)

\* Values.Encode: the keys in sorted order.
RECURSIVE Encode(_)
Encode(v) ==
    IF DOMAIN v = {} THEN <<>>
    ELSE LET k    == CHOOSE x \in DOMAIN v : \A y \in DOMAIN v \ {x} : StrLess(x, y)
             rest == [y \in DOMAIN v \ {k} |-> v[y]]
             head == EncodeKey(k, v[k])
             tail == Encode(rest)
         IN  IF head = <<>> THEN tail
             ELSE IF tail = <<>> THEN head
             ELSE head \o <<Byte("&")>> \o tail

(***************************************************************************)
(* strconv.ParseFloat(s, 64).  A float64 is the record of its bits, as     *)
(* math.Float64bits gives them: neg is the sign bit, exp the 11 exponent   *)
(* bits (0 for zero and the subnormals, 2047 for the infinities and NaN)   *)
(* and frac the 52 fraction bits as four words of 4, 16, 16 and 16 bits,   *)
(* most significant first.  The value parsed is the float64 nearest to the *)
(* number written, ties to the even fraction; it is computed on natural    *)
(* numbers of any size, held as sequences of 16-bit limbs, least           *)
(* significant first.                                                      *)
(***************************************************************************)
LimbBase == 65536

Float64(neg, exp, frac) == [neg |-> neg, exp |-> exp, frac |-> frac]
Zero == Float64(FALSE, 0, <<0, 0, 0, 0>>)
SignedZero(neg) == Float64(neg, 0, <<0, 0, 0, 0>>)
\* math.Inf.
Inf(neg) == Float64(neg, 2047, <<0, 0, 0, 0>>)
\* math.NaN(): the bits 0x7FF8000000000001.
NaN == Float64(FALSE, 2047, <<8, 0, 0, 1>>)

\* x * c + carry for the limbs lo .. hi of x and c <= 2^15: the limbs of
\* the product and the carry out of them.
RECURSIVE MulRange(_, _, _, _, _)
MulRange(x, lo, hi, c, carry) ==
    IF lo > hi THEN [limbs |-> <<>>, carry |-> carry]
    ELSE IF lo = hi
         THEN LET t == x[lo] * c + carry
              IN  [limbs |-> <<t % LimbBase>>, carry |-> t \div LimbBase]
    ELSE LET mid == (lo + hi) \div 2
             a == MulRange(x, lo, mid, c, carry)
             b == MulRange(x, mid + 1, hi, c, a.carry)
         IN  [limbs |-> a.limbs \o b.limbs, carry |-> b.carry]

\* x * c + carry.
MulAdd(x, c, carry) ==
    LET r == MulRange(x, 1, Len(x), c, carry)
    IN  IF r.carry = 0 THEN r.limbs ELSE Append(r.limbs, r.carry)

\* x without its most significant zero limbs.
RECURSIVE Trim(_)
Trim(x) ==
    IF Len(x) = 0 \/ x[Len(x)] # 0 THEN x ELSE Trim(SubSeq(x, 1, Len(x) - 1))

\* The long division by c <= 2^15 of the limbs hi down to lo of x, rem being
\* the remainder left by the limbs above: the limbs of the quotient in the
\* order they are produced (most significant first) and the remainder.
RECURSIVE DivRange(_, _, _, _, _)
DivRange(x, lo, hi, c, rem) ==
    IF lo > hi THEN [limbs |-> <<>>, rem |-> rem]
    ELSE IF lo = hi
         THEN LET t == rem * LimbBase + x[lo]
              IN  [limbs |-> <<t \div c>>, rem |-> t % c]
    ELSE LET mid == (lo + hi) \div 2
             a == DivRange(x, mid + 1, hi, c, rem)
             b == DivRange(x, lo, mid, c, a.rem)
         IN  [limbs |-> a.limbs \o b.limbs, rem |-> b.rem]

\* s from its last element to its first.
Reverse(s) == [i \in 1 .. Len(s) |-> s[Len(s) + 1 - i]]

\* The quotient and the remainder of x by c.
DivSmall(x, c) ==
    LET d == DivRange(x, 1, Len(x), c, 0)
    IN  [q |-> Trim(Reverse(d.limbs)), r |-> d.rem]

\* The number of bits of a limb, and of a number.
RECURSIVE LimbBits(_)
LimbBits(n) == IF n = 0 THEN 0 ELSE 1 + LimbBits(n \div 2)

BitLen(x) == IF Len(x) = 0 THEN 0 ELSE 16 * (Len(x) - 1) + LimbBits(x[Len(x)])

\* Whether a limb of x is not zero.
NonZero(x) == \E i \in 1 .. Len(x) : x[i] # 0

\* n zero limbs.
Zeros(n) == [i \in 1 .. n |-> 0]

\* x * 2^s.
ShiftLeft(x, s) ==
    IF Len(x) = 0 THEN <<>> ELSE MulAdd(Zeros(s \div 16) \o x, 2 ^ (s % 16), 0)

\* x \div 2^s, and whether a bit was shifted out.
ShiftRight(x, s) ==
    LET drop == IF s \div 16 > Len(x) THEN Len(x) ELSE s \div 16
        d == DivSmall(SubSeq(x, drop + 1, Len(x)), 2 ^ (s % 16))
    IN  [q |-> d.q, sticky |-> NonZero(SubSeq(x, 1, drop)) \/ d.r # 0]

\* The limbs lo .. hi of x, zero where x has none.
Limbs(x, lo, hi) ==
    [i \in 1 .. hi - lo + 1 |-> IF lo + i - 1 <= Len(x) THEN x[lo + i - 1] ELSE 0]

\* The low and the high 64 bits of a number below 2^128.
Lo64(x) == Limbs(x, 1, 4)
Hi64(x) == Limbs(x, 5, 8)

\* x + y from limb i on, with the carry of the limbs below.
RECURSIVE PlusFrom(_, _, _, _)
PlusFrom(x, y, i, carry) ==
    IF i > Len(x) /\ i > Len(y) THEN (IF carry = 0 THEN <<>> ELSE <<carry>>)
    ELSE LET t == (IF i <= Len(x) THEN x[i] ELSE 0) + (IF i <= Len(y) THEN y[i] ELSE 0)
                    + carry
         IN  <<t % LimbBase>> \o PlusFrom(x, y, i + 1, t \div LimbBase)

\* x + y.
Plus(x, y) == PlusFrom(x, y, 1, 0)

\* Whether the sum of two 64-bit numbers does not fit 64 bits.
Carries(x, y) == BitLen(Trim(Plus(x, y))) > 64

\* x times the limbs j and up of y, one byte of a limb at a time.
RECURSIVE MulFrom(_, _, _)
MulFrom(x, y, j) ==
    IF j > Len(y) THEN <<>>
    ELSE Plus(Plus(MulAdd(MulAdd(x, y[j] \div 256, 0), 256, 0), MulAdd(x, y[j] % 256, 0)),
              <<0>> \o MulFrom(x, y, j + 1))

\* bits.Mul64: the 128-bit product x * y of two 64-bit numbers.
Mul64(x, y) == MulFrom(x, y, 1)


\* x * 5^n, six powers at a time.
RECURSIVE MulPow5(_, _)
MulPow5(x, n) ==
    IF n <= 6 THEN MulAdd(x, 5 ^ n, 0)
    ELSE LET h == 6 * (((n \div 6) + 1) \div 2)
             a == MulPow5(x, h)
         IN  IF Len(a) = 0 THEN <<>> ELSE MulPow5(a, n - h)

\* x \div 5^n, and whether the division left a remainder.
RECURSIVE DivPow5(_, _)
DivPow5(x, n) ==
    IF n <= 6
    THEN LET d == DivSmall(x, 5 ^ n) IN [q |-> d.q, sticky |-> d.r # 0]
    ELSE LET h == 6 * (((n \div 6) + 1) \div 2)
             a == DivPow5(x, h)
             b == DivPow5(a.q, n - h)
         IN  [sticky |-> a.sticky \/ b.sticky, q |-> b.q]

\* The value of the digits lo .. hi of ds in the given base, a few digits.
RECURSIVE ChunkValue(_, _, _, _)
ChunkValue(ds, lo, hi, base) ==
    IF lo > hi THEN 0 ELSE ChunkValue(ds, lo, hi - 1, base) * base + ds[hi]

\* acc followed by the digits lo .. hi of ds in the given base (first digit
\* most significant), taken chunk digits at a time.
RECURSIVE AppendDigits(_, _, _, _, _, _)
AppendDigits(acc, ds, lo, hi, base, chunk) ==
    IF hi - lo + 1 <= chunk
    THEN MulAdd(acc, base ^ (hi - lo + 1), ChunkValue(ds, lo, hi, base))
    ELSE LET mid == (lo + hi) \div 2
             a == AppendDigits(acc, ds, lo, mid, base, chunk)
         IN  IF Len(a) = 0
             THEN AppendDigits(<<>>, ds, mid + 1, hi, base, chunk)
             ELSE AppendDigits(a, ds, mid + 1, hi, base, chunk)

\* The number written with the digits ds in base 10 or 16.
FromDigits(ds, base) ==
    AppendDigits(<<>>, ds, 1, Len(ds), base, IF base = 10 THEN 4 ELSE 3)

\* The float64 with the sign neg and the 53-bit significand m (four limbs,
\* fewer bits for a subnormal) of a number whose leading bit stands for 2^E
\* before rounding: a significand that rounding carried to 2^53 has the
\* fraction bits 0 and takes the next exponent, and so does a subnormal
\* carried to 2^52.  err is "range" when the value is an infinity.
Pack(neg, normal, E, m) ==
    LET exp == IF normal THEN E + 1023 + (IF m[4] >= 32 THEN 1 ELSE 0)
               ELSE IF m[4] >= 16 THEN 1 ELSE 0
    IN  IF exp >= 2047 THEN [val |-> Inf(neg), err |-> "range"]
        ELSE [val |-> Float64(neg, exp, <<m[4] % 16, m[3], m[2], m[1]>>), err |-> ""]

\* m0 filled with zero limbs up to four limbs.
Pad4(m0) == m0 \o Zeros(4 - Len(m0))

\* half.q, plus one when the bit half.r shifted out of it is set and either
\* a lower bit was set (sticky) or half.q is odd: round to nearest, ties to
\* even.
RoundHalf(half, sticky) ==
    IF half.r = 1 /\ (sticky \/ (Len(half.q) > 0 /\ half.q[1] % 2 = 1))
    THEN MulAdd(half.q, 1, 1)
    ELSE half.q

\* Y.q \div 2 rounded to nearest, ties to even.
RoundShifted(Y, sticky0) == RoundHalf(DivSmall(Y.q, 2), Y.sticky \/ sticky0)

\* The float64 nearest to (X + f) * 2^(-k), where X > 0 and f, a fraction in
\* [0, 1), is not zero exactly when sticky0; err is "range" when the value
\* is rounded to an infinity.  The 53 most significant bits of X are kept,
\* fewer for a subnormal, whose last bit stands for 2^(-1074).
RoundBits(neg, X, sticky0, k) ==
    LET L == BitLen(X)
        E == L - 1 - k
        normal == E >= -1022
        s == IF normal THEN L - 53 ELSE k - 1074
    IN  Pack(neg, normal, E,
             Pad4(IF s <= 0 THEN ShiftLeft(X, -s)
                  ELSE RoundShifted(IF s - 1 >= L THEN [q |-> <<>>, sticky |-> TRUE]
                                    ELSE ShiftRight(X, s - 1),
                                    sticky0)))

\* RoundBits of the quotient d.q and its remainder flag d.sticky.
RoundQuotient(neg, d, k) == RoundBits(neg, d.q, d.sticky, k)

\* The float64 of the decimal digits ds (no leading zero) times 10^e10,
\* that is ds * 5^e10 * 2^e10.  A number of 10^310 or more is an overflow and
\* one below 10^(-330) is zero, as in the decimal conversion of strconv.
FromDecimalDigits(neg, ds, e10) ==
    LET dp == Len(ds) + e10
        n == -e10
        k == 16 * (4 + ((3 * n + 15) \div 16))
    IN  IF Len(ds) = 0 THEN [val |-> SignedZero(neg), err |-> ""]
        ELSE IF dp > 310 THEN [val |-> Inf(neg), err |-> "range"]
        ELSE IF dp < -330 THEN [val |-> SignedZero(neg), err |-> ""]
        ELSE RoundQuotient(neg,
                           IF e10 >= 0
                           THEN [q |-> MulPow5(FromDigits(ds, 10), e10), sticky |-> FALSE]
                           ELSE DivPow5(Zeros(k \div 16) \o FromDigits(ds, 10), n),
                           IF e10 >= 0 THEN -e10 ELSE k + n)

\* The last position in lo .. hi of a digit of ds that is not zero, 0 when
\* there is none; the upper half is searched first.
RECURSIVE LastNonZero(_, _, _)
LastNonZero(ds, lo, hi) ==
    IF lo > hi THEN 0
    ELSE IF lo = hi THEN (IF ds[lo] # 0 THEN lo ELSE 0)
    ELSE LET mid == (lo + hi) \div 2
             u == LastNonZero(ds, mid + 1, hi)
         IN  IF u # 0 THEN u ELSE LastNonZero(ds, lo, mid)

\* ds, its last digit the one at position last, times 10^e10.
FromDecimalUpTo(neg, ds, e10, last) ==
    FromDecimalDigits(neg, SubSeq(ds, 1, last), e10 + (Len(ds) - last))

\* The float64 of the decimal digits ds times 10^e10; the zeros that end ds
\* go into the exponent.
FromDecimal(neg, ds, e10) == FromDecimalUpTo(neg, ds, e10, LastNonZero(ds, 1, Len(ds)))

\* The 128 most significant bits of c.
Top128(c) == IF BitLen(c) > 128 THEN ShiftRight(c, BitLen(c) - 128).q ELSE c

\* The row of 10^q of the table detailedPowersOfTen, for -348 <= q <= 347:
\* the 128-bit mantissa of 10^q, which is that of 5^q (p is 5^|q| and z the
\* number of its bits).  For q >= 0 it is 5^q cut to 128 bits; for q < 0 it is
\* the quotient of a power of two by 5^(-q), plus one, cut to 128 bits, the
\* power of two being 2^(z + 127) down to q = -27 and 2^(2z + 128) below.
PowerOfTenRow(q, p, z) ==
    IF q >= 0
    THEN (IF z <= 128 THEN ShiftLeft(p, 128 - z) ELSE ShiftRight(p, z - 128).q)
    ELSE Top128(MulAdd(DivPow5(ShiftLeft(<<1>>, IF q >= -27 THEN z + 127 ELSE 2 * z + 128),
                               -q).q,
                       1, 1))

detailedPowersOfTen(q) ==
    PowerOfTenRow(q, MulPow5(<<1>>, IF q >= 0 THEN q ELSE -q),
                  BitLen(MulPow5(<<1>>, IF q >= 0 THEN q ELSE -q)))

\* What eiselLemire64 returns when it gives up.
NoFloat == [ok |-> FALSE, val |-> Zero]

\* eiselLemire64, "From 54 to 53 Bits" on: m is the 54-bit mantissa rounded to
\* 53 bits, 2^53 when the rounding carried; an exponent of 0 or less or of
\* 0x7FF or more gives up.
eiselLemirePack(retExp2, neg, m) ==
    LET carry == BitLen(m) > 53
        e == retExp2 + (IF carry THEN 1 ELSE 0)
        f == Pad4(IF carry THEN ShiftRight(m, 1).q ELSE m)
    IN  IF e < 1 \/ e > 2046 THEN NoFloat
        ELSE [ok |-> TRUE, val |-> Float64(neg, e, <<f[4] % 16, f[3], f[2], f[1]>>)]

\* eiselLemire64, "Half-way Ambiguity": x is the 128-bit product and
\* retMantissa its 54 most significant bits.
eiselLemireRound(retExp2, neg, x, retMantissa) ==
    IF ~NonZero(Lo64(x)) /\ Hi64(x)[1] % 512 = 0 /\ retMantissa[1] % 4 = 1 THEN NoFloat
    ELSE eiselLemirePack(retExp2, neg,
                         ShiftRight(MulAdd(retMantissa, 1, retMantissa[1] % 2), 1).q)

\* eiselLemire64, "Shifting to 54 Bits".
eiselLemireShift(retExp2, neg, x, msb) ==
    eiselLemireRound(retExp2 - (1 - msb), neg, x, ShiftRight(Hi64(x), msb + 9).q)

\* eiselLemire64, the end of "Wider Approximation": y is the product of the
\* mantissa and the low half of the row and merged is x plus the high half of
\* y.
eiselLemireMerged(man, retExp2, neg, y, merged) ==
    IF /\ Hi64(merged)[1] % 512 = 511
       /\ Lo64(merged) = <<65535, 65535, 65535, 65535>>
       /\ Carries(Lo64(y), man)
    THEN NoFloat
    ELSE eiselLemireShift(retExp2, neg, merged, Hi64(merged)[4] \div 32768)

\* eiselLemire64, "Wider Approximation": x is the product of the mantissa and
\* the high half of the row pow.
eiselLemireWide(man, retExp2, neg, pow, x) ==
    IF Hi64(x)[1] % 512 = 511 /\ Carries(Lo64(x), man)
    THEN eiselLemireMerged(man, retExp2, neg, Mul64(man, Lo64(pow)),
                           Plus(Limbs(x, 1, 8), Hi64(Mul64(man, Lo64(pow)))))
    ELSE eiselLemireShift(retExp2, neg, x, Hi64(x)[4] \div 32768)

\* eiselLemire64, "Multiplication": man is the mantissa shifted to 64 bits.
eiselLemireMul(man, retExp2, neg, pow) ==
    eiselLemireWide(man, retExp2, neg, pow, Mul64(man, Hi64(pow)))

\* eiselLemire64 of strconv for the mantissa man and the exponent exp10:
\* the float64 of man * 10^exp10, or ok = FALSE when the algorithm cannot
\* tell it.
eiselLemire64(man, exp10, neg) ==
    IF Len(man) = 0 THEN [ok |-> TRUE, val |-> SignedZero(neg)]
    ELSE IF exp10 < -348 \/ 347 < exp10 THEN NoFloat
    ELSE eiselLemireMul(ShiftLeft(man, 64 - BitLen(man)),
                        ((217706 * exp10) \div 65536) + 64 + 1023 - (64 - BitLen(man)),
                        neg, detailedPowersOfTen(exp10))

\* Whether the digits ds followed by k zeros are a number of at most 10^15.
AtMost1e15(ds, k) ==
    \/ Len(ds) + k <= 15
    \/ Len(ds) + k = 16 /\ ds[1] = 1 /\ \A i \in 2 .. Len(ds) : ds[i] = 0

\* atof64exact of strconv: whether mantissa * 10^exp is got by one rounded
\* float64 operation on exact operands.  The mantissa is below 2^52; for
\* 0 < exp <= 37 the zeros of an exponent above 22 are first moved into the
\* mantissa and the number so far must be at most 10^15 (f > 1e15 gives up,
\* whatever the exponent); for -22 <= exp < 0 it is one division.
atof64exact(mantissa, ds, exp) ==
    /\ BitLen(mantissa) <= 52
    /\ \/ exp = 0
       \/ exp > 0 /\ exp <= 15 + 22 /\ AtMost1e15(ds, IF exp > 22 THEN exp - 22 ELSE 0)
       \/ exp < 0 /\ exp >= -22

\* (*decimal).floatBits for the decimal d: its digits held d.d, the place
\* d.dp of its point and its flag d.trunc of digits dropped.  A decimal with
\* digits dropped is rounded as one with a further digit that is not zero.
floatBits(d) ==
    IF d.trunc THEN FromDecimal(d.neg, Append(d.d, 1), d.dp - Len(d.d) - 1)
    ELSE FromDecimal(d.neg, d.d, d.dp - Len(d.d))

\* atofHex: the float64 of the hexadecimal digits hs (at most 16, no leading
\* zero) times 2^e2; trunc tells that a non-zero digit was left out.
atofHex(neg, hs, trunc, e2) ==
    IF Len(hs) = 0 THEN [val |-> SignedZero(neg), err |-> ""]
    ELSE RoundBits(neg, FromDigits(hs, 16), trunc, -e2)

\* lower(c) of strconv: c | ('x' - 'X').
lower(c) == IF (c \div 32) % 2 = 1 THEN c ELSE c + 32

\* commonPrefixLenIgnoreCase of strconv.
RECURSIVE commonPrefixLenIgnoreCase(_, _)
commonPrefixLenIgnoreCase(s, prefix) ==
    IF Len(s) = 0 \/ Len(prefix) = 0 THEN 0
    ELSE IF LowerByte(s[1]) # prefix[1] THEN 0
    ELSE 1 + commonPrefixLenIgnoreCase(Tail(s), Tail(prefix))

\* special of strconv: an optionally signed "inf" or "infinity" or an
\* unsigned "nan", in any case, at the start of s; n is the number of bytes
\* it takes.
special(s) ==
    LET none == [ok |-> FALSE, val |-> Zero, n |-> 0]
        signed == Len(s) > 0 /\ (s[1] = Byte("+") \/ s[1] = Byte("-"))
        rest == IF signed THEN Tail(s) ELSE s
        nsign == IF signed THEN 1 ELSE 0
        p == commonPrefixLenIgnoreCase(rest, Bytes("infinity"))
        n == IF 3 < p /\ p < 8 THEN 3 ELSE p
    IN  IF Len(s) = 0 THEN none
        ELSE IF signed \/ s[1] = Byte("i") \/ s[1] = Byte("I")
             THEN IF n = 3 \/ n = 8
                  THEN [ok |-> TRUE, val |-> Inf(signed /\ s[1] = Byte("-")), n |-> nsign + n]
                  ELSE none
        ELSE IF s[1] = Byte("n") \/ s[1] = Byte("N")
             THEN IF commonPrefixLenIgnoreCase(s, Bytes("nan")) = 3
                  THEN [ok |-> TRUE, val |-> NaN, n |-> 3]
                  ELSE none
        ELSE none

\* One turn of the loop of underscoreOK on the byte c: saw is "0" after a
\* digit or a base prefix, "_" after an underscore, "!" after any other byte
\* and "^" at the start; ok is FALSE once the loop has returned false.
underscoreStep(c, hex, st) ==
    IF IsDigit(c) \/ (hex /\ lower(c) \in 97 .. 102) THEN [st EXCEPT !.saw = "0"]
    ELSE IF c = Byte("_")
         THEN (IF st.saw # "0" THEN [st EXCEPT !.ok = FALSE] ELSE [st EXCEPT !.saw = "_"])
    ELSE IF st.saw = "_" THEN [st EXCEPT !.ok = FALSE]
    ELSE [st EXCEPT !.saw = "!"]

\* The loop of underscoreOK over the bytes lo .. hi of s, by halves.
RECURSIVE underscoreScan(_, _, _, _, _)
underscoreScan(s, lo, hi, hex, st) ==
    IF lo > hi THEN st
    ELSE IF lo = hi THEN underscoreStep(s[lo], hex, st)
    ELSE LET a == underscoreScan(s, lo, (lo + hi) \div 2, hex, st)
         IN  IF ~a.ok THEN a ELSE underscoreScan(s, ((lo + hi) \div 2) + 1, hi, hex, a)

\* The end of underscoreOK.
underscoreEnd(st) == st.ok /\ st.saw # "_"

\* underscoreOK of strconv.
underscoreOK(s0) ==
    LET s == IF Len(s0) >= 1 /\ (s0[1] = Byte("-") \/ s0[1] = Byte("+")) THEN Tail(s0) ELSE s0
        prefix == Len(s) >= 2 /\ s[1] = Byte("0")
                    /\ lower(s[2]) \in {Byte("b"), Byte("o"), Byte("x")}
    IN  IF prefix
        THEN underscoreEnd(underscoreScan(s, 3, Len(s), lower(s[2]) = Byte("x"),
                                          [saw |-> "0", ok |-> TRUE]))
        ELSE underscoreEnd(underscoreScan(s, 1, Len(s), FALSE, [saw |-> "^", ok |-> TRUE]))

\* The state a digit loop starts in: no digit read (nd), none kept (ds), the
\* point not seen; i is the position the loop ends at, past the end of s
\* unless the loop stops before.
NoDigits(s) ==
    [i |-> Len(s) + 1, stop |-> FALSE, ds |-> <<>>, nd |-> 0, dp |-> 0, sawdot |-> FALSE,
     sawdigits |-> FALSE, underscores |-> FALSE, trunc |-> FALSE]

\* One turn of the digit loop of readFloat, on the byte at i: the first
\* maxMantDigits digits are kept in the mantissa (ds) and all are counted
\* (nd); the loop stops at a second point and at any other byte.
readDigit(s, base, maxMantDigits, i, st) ==
    LET c == s[i]
        keep == Len(st.ds) < maxMantDigits
    IN  IF c = Byte("_") THEN [st EXCEPT !.underscores = TRUE]
        ELSE IF c = Byte(".")
             THEN IF st.sawdot THEN [st EXCEPT !.stop = TRUE, !.i = i]
                  ELSE [st EXCEPT !.sawdot = TRUE, !.dp = st.nd]
        ELSE IF IsDigit(c)
             THEN IF c = Byte("0") /\ st.nd = 0
                  THEN [st EXCEPT !.sawdigits = TRUE, !.dp = @ - 1]
                  ELSE [st EXCEPT !.sawdigits = TRUE, !.nd = @ + 1,
                                  !.ds = IF keep THEN Append(@, c - 48) ELSE @,
                                  !.trunc = @ \/ (~keep /\ c # Byte("0"))]
        ELSE IF base = 16 /\ lower(c) \in 97 .. 102
             THEN [st EXCEPT !.sawdigits = TRUE, !.nd = @ + 1,
                             !.ds = IF keep THEN Append(@, lower(c) - 97 + 10) ELSE @,
                             !.trunc = @ \/ ~keep]
        ELSE [st EXCEPT !.stop = TRUE, !.i = i]

\* The digit loop of readFloat over the bytes lo .. hi of s, by halves.
RECURSIVE readDigits(_, _, _, _, _, _)
readDigits(s, base, maxMantDigits, lo, hi, st) ==
    IF lo > hi THEN st
    ELSE IF lo = hi THEN readDigit(s, base, maxMantDigits, lo, st)
    ELSE LET a == readDigits(s, base, maxMantDigits, lo, (lo + hi) \div 2, st)
         IN  IF a.stop THEN a
             ELSE readDigits(s, base, maxMantDigits, ((lo + hi) \div 2) + 1, hi, a)

\* One turn of the exponent loop of readFloat and of decimal.set, on the
\* byte at i: e stops growing once it has reached 10000.
readExponentDigit(s, i, st) ==
    IF s[i] = Byte("_") THEN [st EXCEPT !.underscores = TRUE]
    ELSE IF IsDigit(s[i])
         THEN [st EXCEPT !.e = IF @ < 10000 THEN @ * 10 + (s[i] - 48) ELSE @]
    ELSE [st EXCEPT !.stop = TRUE, !.i = i]

\* The exponent loop over the bytes lo .. hi of s, by halves.
RECURSIVE readExponentLoop(_, _, _, _)
readExponentLoop(s, lo, hi, st) ==
    IF lo > hi THEN st
    ELSE IF lo = hi THEN readExponentDigit(s, lo, st)
    ELSE LET a == readExponentLoop(s, lo, (lo + hi) \div 2, st)
         IN  IF a.stop THEN a ELSE readExponentLoop(s, ((lo + hi) \div 2) + 1, hi, a)

\* The exponent digits of s from position i on.
readExponent(s, i, underscores) ==
    readExponentLoop(s, i, Len(s),
                     [i |-> Len(s) + 1, stop |-> FALSE, e |-> 0, underscores |-> underscores])

\* The end of readFloat, after the digit loop has stopped in the state st
\* and, when an exponent follows (hasExp), the exponent loop in ex: i2 is the
\* place of the first exponent digit and eNeg its sign.  The number read is
\* ds * 10^exp, or ds * 2^exp when hex, and more when trunc.
readFloatEnd(s, neg, hex, st, hasExp, i2, eNeg, ex) ==
    LET fail == [ok |-> FALSE, neg |-> FALSE, hex |-> FALSE, ds |-> <<>>, exp |-> 0,
                 trunc |-> FALSE, n |-> 0]
        dp0 == IF st.sawdot THEN st.dp ELSE st.nd
        dp == IF hex THEN 4 * dp0 ELSE dp0
        ndMant == IF hex THEN 4 * Len(st.ds) ELSE Len(st.ds)
        n == IF hasExp THEN ex.i - 1 ELSE st.i - 1
        underscores == IF hasExp THEN ex.underscores ELSE st.underscores
        dpe == IF hasExp THEN dp + (IF eNeg THEN -ex.e ELSE ex.e) ELSE dp
    IN  IF ~st.sawdigits THEN fail
        ELSE IF hasExp /\ (i2 > Len(s) \/ ~IsDigit(s[i2])) THEN fail
        ELSE IF ~hasExp /\ hex THEN fail
        ELSE IF underscores /\ ~underscoreOK(SubSeq(s, 1, n)) THEN fail
        ELSE [ok |-> TRUE, neg |-> neg, hex |-> hex, ds |-> st.ds,
              exp |-> IF Len(st.ds) = 0 THEN 0 ELSE dpe - ndMant,
              trunc |-> st.trunc, n |-> n]

\* The exponent of readFloat, after the digit loop has stopped in the state
\* st: an exponent follows when the byte at st.i is e (p for a hexadecimal
\* number) in either case.
readFloatExp(s, neg, hex, st) ==
    LET expChar == IF hex THEN Byte("p") ELSE Byte("e")
        hasExp == st.i <= Len(s) /\ lower(s[st.i]) = expChar
        i1 == st.i + 1
        eSigned == i1 <= Len(s) /\ (s[i1] = Byte("+") \/ s[i1] = Byte("-"))
        i2 == IF eSigned THEN i1 + 1 ELSE i1
    IN  readFloatEnd(s, neg, hex, st, hasExp, i2,
                     i1 <= Len(s) /\ s[i1] = Byte("-"),
                     readExponent(s, i2, st.underscores))

\* readFloat of strconv: the sign, the mantissa and the exponent of the
\* number at the start of s; the mantissa ds is the first 19 digits (16 when
\* hex) after the leading zeros and trunc tells that a later digit is not
\* zero; n is the number of bytes read; ok is FALSE when s does not start
\* with a number.
readFloat(s) ==
    LET signed == Len(s) > 0 /\ (s[1] = Byte("+") \/ s[1] = Byte("-"))
        i0 == IF signed THEN 2 ELSE 1
        hex == i0 + 2 <= Len(s) /\ s[i0] = Byte("0") /\ lower(s[i0 + 1]) = Byte("x")
    IN  IF Len(s) = 0
        THEN [ok |-> FALSE, neg |-> FALSE, hex |-> FALSE, ds |-> <<>>, exp |-> 0,
              trunc |-> FALSE, n |-> 0]
        ELSE readFloatExp(s, s[1] = Byte("-"), hex,
                          readDigits(s, IF hex THEN 16 ELSE 10, IF hex THEN 16 ELSE 19,
                                     IF hex THEN i0 + 2 ELSE i0, Len(s), NoDigits(s)))

\* One turn of the digit loop of (*decimal).set, on the byte at i: the first
\* 800 digits are kept (len(b.d)) and the point is placed by the number of
\* digits kept.
setDigit(s, i, st) ==
    LET c == s[i]
        keep == Len(st.ds) < 800
    IN  IF c = Byte("_") THEN st
        ELSE IF c = Byte(".")
             THEN IF st.sawdot THEN [st EXCEPT !.stop = TRUE, !.i = i]
                  ELSE [st EXCEPT !.sawdot = TRUE, !.dp = Len(st.ds)]
        ELSE IF IsDigit(c)
             THEN IF c = Byte("0") /\ Len(st.ds) = 0
                  THEN [st EXCEPT !.sawdigits = TRUE, !.dp = @ - 1]
                  ELSE [st EXCEPT !.sawdigits = TRUE,
                                  !.ds = IF keep THEN Append(@, c - 48) ELSE @,
                                  !.trunc = @ \/ (~keep /\ c # Byte("0"))]
        ELSE [st EXCEPT !.stop = TRUE, !.i = i]

\* The digit loop of (*decimal).set over the bytes lo .. hi of s, by halves.
RECURSIVE setDigits(_, _, _, _)
setDigits(s, lo, hi, st) ==
    IF lo > hi THEN st
    ELSE IF lo = hi THEN setDigit(s, lo, st)
    ELSE LET a == setDigits(s, lo, (lo + hi) \div 2, st)
         IN  IF a.stop THEN a ELSE setDigits(s, ((lo + hi) \div 2) + 1, hi, a)

\* The end of (*decimal).set: the exponent that follows the digits is added
\* to the place of the point.
setExp(s, neg, st, dp) ==
    LET hasExp == st.i <= Len(s) /\ lower(s[st.i]) = Byte("e")
        i1 == st.i + 1
        eSigned == i1 <= Len(s) /\ (s[i1] = Byte("+") \/ s[i1] = Byte("-"))
        e == readExponent(s, IF eSigned THEN i1 + 1 ELSE i1, FALSE).e
    IN  [neg |-> neg, d |-> st.ds, trunc |-> st.trunc,
         dp |-> IF ~hasExp THEN dp
                ELSE IF i1 <= Len(s) /\ s[i1] = Byte("-") THEN dp - e ELSE dp + e]

setPoint(s, neg, st) == setExp(s, neg, st, IF st.sawdot THEN st.dp ELSE Len(st.ds))

\* (*decimal).set on a text s that readFloat has read to its end: the sign
\* neg, the digits d, the place dp of the point and the flag trunc.
decimalSet(s) ==
    LET signed == Len(s) > 0 /\ (s[1] = Byte("+") \/ s[1] = Byte("-"))
    IN  setPoint(s, Len(s) > 0 /\ s[1] = Byte("-"),
                 setDigits(s, IF signed THEN 2 ELSE 1, Len(s), NoDigits(s)))

\* The fast paths of atof64 for a decimal number: atof64exact when no digit
\* was dropped; else eiselLemire64 (f), which for a mantissa with digits
\* dropped must give the same float64 for the mantissa plus one (fUp); else
\* the slow fallback.
atof64Fast(s, rf, mantissa, f, fUp) ==
    IF ~rf.trunc /\ atof64exact(mantissa, rf.ds, rf.exp)
    THEN FromDecimal(rf.neg, rf.ds, rf.exp)
    ELSE IF f.ok /\ (~rf.trunc \/ (fUp.ok /\ f.val = fUp.val))
         THEN [val |-> f.val, err |-> ""]
    ELSE floatBits(decimalSet(s))

atof64Decimal(s, rf, mantissa) ==
    atof64Fast(s, rf, mantissa, eiselLemire64(mantissa, rf.exp, rf.neg),
               eiselLemire64(MulAdd(mantissa, 1, 1), rf.exp, rf.neg))

\* atof64 of strconv, given what special (sp) and readFloat (rf) found at
\* the start of s: the whole of s must have been read.
atof64(s, sp, rf) ==
    LET syntax == [val |-> Zero, err |-> "syntax"]
    IN  IF sp.ok THEN (IF sp.n = Len(s) THEN [val |-> sp.val, err |-> ""] ELSE syntax)
        ELSE IF ~rf.ok \/ rf.n # Len(s) THEN syntax
        ELSE IF rf.hex THEN atofHex(rf.neg, rf.ds, rf.trunc, rf.exp)
        ELSE atof64Decimal(s, rf, FromDigits(rf.ds, 10))

\* strconv.ParseFloat(s, 64): val is the value returned and err is "" (no
\* error), "syntax" (val is 0) or "range" (val is an infinity).
ParseFloat(s) == atof64(s, special(s), readFloat(s))


(***************************************************************************)
(* The constants and types of src/paypal.go.                               *)
(***************************************************************************)
NVP_SANDBOX_URL == Bytes("https://api-3t.sandbox.paypal.com/nvp")
NVP_PRODUCTION_URL == Bytes("https://api-3t.paypal.com/nvp")
CHECKOUT_SANDBOX_URL == Bytes("https://www.sandbox.paypal.com/cgi-bin/webscr")
CHECKOUT_PRODUCTION_URL == Bytes("https://www.paypal.com/cgi-bin/webscr")
NVP_VERSION == Bytes("94")

\* NewDefaultClient / NewClient: the fields are stored as given.
NewClient(username, password, signature, usesSandbox) ==
    [username |-> username, password |-> password, signature |-> signature,
     usesSandbox |-> usesSandbox]

\* A nil *PayPalResponse.
NilResponse == [isNil |-> TRUE]

\* &PayPalResponse{usedSandbox: ...}: every other field is its zero value
\* (a nil Values reads as an empty one).
NewResponse(usedSandbox) ==
    [isNil |-> FALSE, Ack |-> <<>>, CorrelationId |-> <<>>, Timestamp |-> <<>>,
     Version |-> <<>>, Build |-> <<>>, Token |-> <<>>, Values |-> EmptyValues,
     usedSandbox |-> usedSandbox]

\* A *PayPalError as an error value.
PayPalError(ack, code, short, long, severity) ==
    [kind |-> "PayPalError", Ack |-> ack, ErrorCode |-> code, ShortMessage |-> short,
     LongMessage |-> long, SeverityCode |-> severity]

\* "PayPal is undergoing maintenance.\nPlease try again later."
MaintenanceMessage ==
    Bytes("PayPal is undergoing maintenance.") \o <<10>> \o Bytes("Please try again later.")

\* Error with the code shown whenever there is one.
ErrorCodeAlone(e) ==
    IF Len(e.ErrorCode) # 0
    THEN Bytes("PayPal Error ") \o e.ErrorCode \o Bytes(": ") \o e.ShortMessage
    ELSE IF Len(e.Ack) # 0 THEN e.Ack
    ELSE MaintenanceMessage

\* (*PayPalError).Error.
Error(e) ==
    IF Len(e.ErrorCode) # 0 /\ Len(e.ShortMessage) # 0
    THEN Bytes("PayPal Error ") \o e.ErrorCode \o Bytes(": ") \o e.ShortMessage
    ELSE IF Len(e.Ack) # 0 THEN e.Ack
    ELSE MaintenanceMessage

\* CheckoutUrl without the environment of the response.
CheckoutUrlProduction(r) ==
    LET query == Add(Set(EmptyValues, Bytes("cmd"), Bytes("_express-checkout")), Bytes("token"), r.Token)
    IN  CHECKOUT_PRODUCTION_URL \o Bytes("?") \o Encode(query)

\* (*PayPalResponse).CheckoutUrl.
CheckoutUrl(r) ==
    LET query == Add(Set(EmptyValues, Bytes("cmd"), Bytes("_express-checkout")), Bytes("token"), r.Token)
        checkoutUrl == IF r.usedSandbox THEN CHECKOUT_SANDBOX_URL
                       ELSE CHECKOUT_PRODUCTION_URL
    IN  checkoutUrl \o Bytes("?") \o Encode(query)

\* The zero PayPalPaymentResponse.
ZeroPayment ==
    [TransactionId |-> <<>>, Status |-> <<>>, Type |-> <<>>, Fee |-> Zero, Amount |-> Zero,
     Currency |-> <<>>, ReasonCode |-> <<>>]

\* (*PayPalPaymentResponse).Populate: every field is assigned, the two parse
\* errors are dropped.
Populate(response, v) ==
    [response EXCEPT
        !.TransactionId = Get(v, Bytes("PAYMENTINFO_0_TRANSACTIONID")),
        !.Status = Get(v, Bytes("PAYMENTINFO_0_PAYMENTSTATUS")),
        !.Amount = ParseFloat(Get(v, Bytes("PAYMENTINFO_0_AMT"))).val,
        !.Fee = ParseFloat(Get(v, Bytes("PAYMENTINFO_0_FEEAMT"))).val,
        !.Currency = Get(v, Bytes("PAYMENTINFO_0_CURRENCYCODE")),
        !.Type = Get(v, Bytes("PAYMENTINFO_0_PAYMENTTYPE")),
        !.ReasonCode = Get(v, Bytes("PAYMENTINFO_0_REASONCODE"))]

(***************************************************************************)
(* The request builders: the parameter set each one hands to               *)
(* PerformRequest.                                                         *)
(***************************************************************************)
\* One map shared by the calls in progress instead of a map per call.
SharedValues ==
    IF \E q \in Procs : pc[q] # "idle"
    THEN values[CHOOSE q \in Procs : pc[q] # "idle"]
    ELSE EmptyValues

\* values := url.Values{} of a builder.
NewValues == EmptyValues

\* The loop of SetExpressCheckoutDigitalGoods from index i on.
RECURSIVE AddDigitalGoods(_, _, _)
AddDigitalGoods(v, goods, i) ==
    IF i >= Len(goods) THEN v
    ELSE LET good == goods[i + 1]
             v1 == Add(v, Field("L_PAYMENTREQUEST_0_NAME", i), good.Name)
             v2 == Add(v1, Field("L_PAYMENTREQUEST_0_AMT", i), Format2f(good.Amount))
             v3 == Add(v2, Field("L_PAYMENTREQUEST_0_QTY", i), Itoa(good.Quantity))
             v4 == Add(v3, Field("L_PAYMENTREQUEST_0_ITEMCATEGORY", i), Bytes("Digital"))
         IN  AddDigitalGoods(v4, goods, i + 1)

SetExpressCheckoutDigitalGoodsValues(paymentAmount, currencyCode, returnURL, cancelURL, goods) ==
    LET v1 == Set(NewValues, Bytes("METHOD"), Bytes("SetExpressCheckout"))
        v2 == Add(v1, Bytes("PAYMENTREQUEST_0_AMT"), Format2f(paymentAmount))
        v3 == Add(v2, Bytes("PAYMENTREQUEST_0_PAYMENTACTION"), Bytes("Sale"))
        v4 == Add(v3, Bytes("PAYMENTREQUEST_0_CURRENCYCODE"), currencyCode)
        v5 == Add(v4, Bytes("RETURNURL"), returnURL)
        v6 == Add(v5, Bytes("CANCELURL"), cancelURL)
        v7 == Add(v6, Bytes("REQCONFIRMSHIPPING"), Bytes("0"))
        v8 == Add(v7, Bytes("NOSHIPPING"), Bytes("1"))
        v9 == Add(v8, Bytes("SOLUTIONTYPE"), Bytes("Sole"))
    IN  AddDigitalGoods(v9, goods, 0)

\* AddGoods with the fields numbered from 1.
RECURSIVE AddGoodsOneBased(_, _, _)
AddGoodsOneBased(v, goods, i) ==
    IF i >= Len(goods) THEN v
    ELSE LET good == goods[i + 1]
             v0 == IF good.Id # <<>> THEN Add(v, Field("L_PAYMENTREQUEST_0_NUMBER", i + 1), good.Id)
                   ELSE v
             v1 == Add(v0, Field("L_PAYMENTREQUEST_0_NAME", i + 1), good.Name)
             v2 == Add(v1, Field("L_PAYMENTREQUEST_0_AMT", i + 1), Format2f(good.Amount))
             v3 == Add(v2, Field("L_PAYMENTREQUEST_0_QTY", i + 1), Itoa(good.Quantity))
         IN  AddGoodsOneBased(v3, goods, i + 1)

\* The loop of SetExpressCheckout from index i on.
RECURSIVE AddGoods(_, _, _)
AddGoods(v, goods, i) ==
    IF i >= Len(goods) THEN v
    ELSE LET good == goods[i + 1]
             v0 == IF good.Id # <<>> THEN Add(v, Field("L_PAYMENTREQUEST_0_NUMBER", i), good.Id)
                   ELSE v
             v1 == Add(v0, Field("L_PAYMENTREQUEST_0_NAME", i), good.Name)
             v2 == Add(v1, Field("L_PAYMENTREQUEST_0_AMT", i), Format2f(good.Amount))
             v3 == Add(v2, Field("L_PAYMENTREQUEST_0_QTY", i), Itoa(good.Quantity))
         IN  AddGoods(v3, goods, i + 1)

\* AddDiscount with the test order.Discount >= 0.
AddDiscountNonNegative(v, order, goodsCount) ==
    IF order.Discount >= 0
    THEN LET v1 == Add(v, Field("L_PAYMENTREQUEST_0_NAME", goodsCount), Bytes("DISCOUNT"))
             v2 == Add(v1, Field("L_PAYMENTREQUEST_0_AMT", goodsCount),
                       Format2f(-order.Discount))
         IN  Add(v2, Field("L_PAYMENTREQUEST_0_QTY", goodsCount), Bytes("1"))
    ELSE v

\* The discount step of SetExpressCheckout.
AddDiscount(v, order, goodsCount) ==
    IF order.Discount > 0
    THEN LET v1 == Add(v, Field("L_PAYMENTREQUEST_0_NAME", goodsCount), Bytes("DISCOUNT"))
             v2 == Add(v1, Field("L_PAYMENTREQUEST_0_AMT", goodsCount),
                       Format2f(-order.Discount))
         IN  Add(v2, Field("L_PAYMENTREQUEST_0_QTY", goodsCount), Bytes("1"))
    ELSE v

SetExpressCheckoutValues(order, goods) ==
    LET v1  == Set(NewValues, Bytes("METHOD"), Bytes("SetExpressCheckout"))
        v2  == Add(v1, Bytes("PAYMENTREQUEST_0_ITEMAMT"), Format2f(order.SubTotal))
        v3  == Add(v2, Bytes("PAYMENTREQUEST_0_SHIPPINGAMT"), Format2f(order.Shipping))
        v4  == Add(v3, Bytes("PAYMENTREQUEST_0_AMT"), Format2f(order.Total))
        v5  == Add(v4, Bytes("PAYMENTREQUEST_0_PAYMENTACTION"), Bytes("Sale"))
        v6  == Add(v5, Bytes("PAYMENTREQUEST_0_CURRENCYCODE"), order.CurrencyCode)
        v7  == Add(v6, Bytes("RETURNURL"), order.ReturnUrl)
        v8  == Add(v7, Bytes("CANCELURL"), order.CancelUrl)
        v9  == Add(v8, Bytes("REQCONFIRMSHIPPING"), Bytes("0"))
        v10 == Add(v9, Bytes("NOSHIPPING"), Bytes("1"))
        v11 == Add(v10, Bytes("SOLUTIONTYPE"), Bytes("Sole"))
        goodsCount == Len(goods)
    IN  AddDiscount(AddGoods(v11, goods, 0), order, goodsCount)

DoExpressCheckoutPaymentValues(token, payerId, paymentType, currencyCode, finalPaymentAmount) ==
    LET v1 == Set(NewValues, Bytes("METHOD"), Bytes("DoExpressCheckoutPayment"))
        v2 == Add(v1, Bytes("TOKEN"), token)
        v3 == Add(v2, Bytes("PAYERID"), payerId)
        v4 == Add(v3, Bytes("PAYMENTREQUEST_0_PAYMENTACTION"), paymentType)
        v5 == Add(v4, Bytes("PAYMENTREQUEST_0_CURRENCYCODE"), currencyCode)
    IN  Add(v5, Bytes("PAYMENTREQUEST_0_AMT"), Format2f(finalPaymentAmount))

GetExpressCheckoutDetailsValues(token) ==
    Set(Add(NewValues, Bytes("TOKEN"), token), Bytes("METHOD"), Bytes("GetExpressCheckoutDetails"))

(***************************************************************************)
(* PerformRequest.                                                         *)
(***************************************************************************)
\* The four values.Add calls that open PerformRequest.
AddCredentials(c, v) ==
    LET v1 == Add(v, Bytes("USER"), c.username)
        v2 == Add(v1, Bytes("PWD"), c.password)
        v3 == Add(v2, Bytes("SIGNATURE"), c.signature)
    IN  Add(v3, Bytes("VERSION"), NVP_VERSION)

\* Endpoint without the sandbox flag.
EndpointProduction(c) == NVP_PRODUCTION_URL

\* The endpoint the request is posted to.
Endpoint(c) == IF c.usesSandbox THEN NVP_SANDBOX_URL ELSE NVP_PRODUCTION_URL

\* IsFailure with the acknowledgement compared as it is spelled.
IsFailureExact(ack, errorCode) ==
    \/ Len(errorCode) # 0
    \/ ack = Bytes("Failure")
    \/ ack = Bytes("FailureWithWarning")

\* Whether a decoded reply is a remote-declared failure.
IsFailure(ack, errorCode) ==
    \/ Len(errorCode) # 0
    \/ ToLowerEquals(ack, Bytes("failure"))
    \/ ToLowerEquals(ack, Bytes("failurewithwarning"))

\* What PerformRequest returns once the body has been read.
Decoded(c, body) ==
    LET parsed == ParseQuery(body)
        rv == parsed.values
        response == NewResponse(c.usesSandbox)
        filled == [response EXCEPT
                     !.Ack = Get(rv, Bytes("ACK")),
                     !.CorrelationId = Get(rv, Bytes("CORRELATIONID")),
                     !.Timestamp = Get(rv, Bytes("TIMESTAMP")),
                     !.Version = Get(rv, Bytes("VERSION")),
                     !.Build = Get(rv, Bytes("BUILD")),
                     !.Token = Get(rv, Bytes("TOKEN")),
                     !.Values = rv]
        errorCode == Get(rv, Bytes("L_ERRORCODE0"))
    IN  IF parsed.err # NilError THEN [response |-> response, err |-> parsed.err]
        ELSE IF IsFailure(filled.Ack, errorCode)
             THEN [response |-> filled,
                   err |-> PayPalError(filled.Ack, errorCode,
                                       Get(rv, Bytes("L_SHORTMESSAGE0")),
                                       Get(rv, Bytes("L_LONGMESSAGE0")),
                                       Get(rv, Bytes("L_SEVERITYCODE0")))]
        ELSE [response |-> filled, err |-> NilError]

\* PerformRequestResult without the check of the error of ReadAll.
PerformRequestResultUnchecked(c, cn) ==
    IF cn.postErr # NilError THEN [response |-> NilResponse, err |-> cn.postErr]
    ELSE Decoded(c, cn.body)

\* What PerformRequest returns for the outcome cn of its HTTP exchange.
PerformRequestResult(c, cn) ==
    IF cn.postErr # NilError THEN [response |-> NilResponse, err |-> cn.postErr]
    ELSE IF cn.readErr # NilError THEN [response |-> NilResponse, err |-> cn.readErr]
    ELSE Decoded(c, cn.body)

(***************************************************************************)
(* The initial state, the inputs and the actions.                          *)
(***************************************************************************)
NoCall == [op |-> "none"]
NoConn == [postErr |-> NilError, readErr |-> NilError, body |-> <<>>]
NoReturn == [response |-> NilResponse, err |-> NilError]

\* The errors of the HTTP layer.
TransportError == [kind |-> "url.Error", text |-> Bytes("Post: dial tcp: connection refused")]

\* A PayPalPaymentResponse already holding the result of an earlier payment.
UsedPayment ==
    [TransactionId |-> Bytes("OLD-1"), Status |-> Bytes("Pending"), Type |-> Bytes("echeck"),
     Fee |-> Float64(FALSE, 1022, <<15, 44564, 31457, 18350>>),   \* 0.99
     Amount |-> Float64(FALSE, 1029, <<3, 16384, 0, 0>>),          \* 77
     Currency |-> Bytes("EUR"), ReasonCode |-> Bytes("refund")]

Clients == {NewClient(Bytes("api_user"), Bytes("api_pwd"), Bytes("api_sig"), sb) : sb \in BOOLEAN}

InitWith(payments) ==
    /\ client \in Clients
    /\ pc = [p \in Procs |-> "idle"]
    /\ call = [p \in Procs |-> NoCall]
    /\ values = [p \in Procs |-> EmptyValues]
    /\ given = [p \in Procs |-> EmptyValues]
    /\ uses = [p \in Procs |-> 0]
    /\ posted = [p \in Procs |-> <<>>]
    /\ conn = [p \in Procs |-> NoConn]
    /\ ret = [p \in Procs |-> NoReturn]
    /\ redirectUrl = [p \in Procs |-> <<>>]
    /\ message = [p \in Procs |-> <<>>]
    /\ payment \in [Procs -> payments]
    /\ populates = [p \in Procs |-> 0]

Init == InitWith({ZeroPayment})

\* The first half of PerformRequest on the parameter set v: the credentials
\* are added to the map itself and the form is posted.
PerformRequestPost(p, v) ==
    /\ given' = [given EXCEPT ![p] = v]
    /\ values' = [values EXCEPT ![p] = AddCredentials(client, v)]
    /\ posted' = [posted EXCEPT
                    ![p] = <<[url |-> Endpoint(client),
                              form |-> AddCredentials(client, v)]>>]
    /\ conn' = [conn EXCEPT ![p] = NoConn]
    /\ ret' = [ret EXCEPT ![p] = NoReturn]
    /\ pc' = [pc EXCEPT ![p] = "wait"]

\* Operation c hands the parameter set v to PerformRequest.
Enter(p, c, v, n) ==
    /\ call' = [call EXCEPT ![p] = c]
    /\ uses' = [uses EXCEPT ![p] = n]
    /\ PerformRequestPost(p, v)
    /\ UNCHANGED <<client, redirectUrl, message, payment, populates>>

(***************************************************************************)
(* The four builders (and the Sale wrapper), up to the POST of the         *)
(* PerformRequest they end with.                                           *)
(***************************************************************************)
SetExpressCheckout(p, orders, goodsSeqs) ==
    /\ pc[p] = "idle"
    /\ \E order \in orders, goods \in goodsSeqs :
         Enter(p, [op |-> "SetExpressCheckout", order |-> order, goods |-> goods],
               SetExpressCheckoutValues(order, goods), 0)

SetExpressCheckoutDigitalGoods(p, amounts, currency, returnURL, cancelURL, goodsSeqs) ==
    /\ pc[p] = "idle"
    /\ \E amount \in amounts, goods \in goodsSeqs :
         Enter(p, [op |-> "SetExpressCheckoutDigitalGoods", paymentAmount |-> amount,
                   currencyCode |-> currency, returnURL |-> returnURL,
                   cancelURL |-> cancelURL, goods |-> goods],
               SetExpressCheckoutDigitalGoodsValues(amount, currency, returnURL,
                                                    cancelURL, goods), 0)

DoExpressCheckoutPayment(p, token, payerId, paymentTypes, currency, amounts) ==
    /\ pc[p] = "idle"
    /\ \E paymentType \in paymentTypes, amount \in amounts :
         Enter(p, [op |-> "DoExpressCheckoutPayment", token |-> token,
                   payerId |-> payerId, paymentType |-> paymentType,
                   currencyCode |-> currency, finalPaymentAmount |-> amount],
               DoExpressCheckoutPaymentValues(token, payerId, paymentType, currency,
                                              amount), 0)

DoExpressCheckoutSale(p, token, payerId, currency, amounts) ==
    DoExpressCheckoutPayment(p, token, payerId, {Bytes("Sale")}, currency, amounts)

GetExpressCheckoutDetails(p, tokens) ==
    /\ pc[p] = "idle"
    /\ \E token \in tokens :
         Enter(p, [op |-> "GetExpressCheckoutDetails", token |-> token],
               GetExpressCheckoutDetailsValues(token), 0)

\* A caller hands PerformRequest a parameter set it built itself.
CallPerformRequest(p, sets) ==
    /\ pc[p] = "idle"
    /\ \E v \in sets : Enter(p, [op |-> "PerformRequest"], v, 1)

\* The caller hands the same map to PerformRequest once more.
CallPerformRequestAgain(p) ==
    /\ pc[p] = "done"
    /\ call[p].op = "PerformRequest"
    /\ uses[p] < MaxReuse
    /\ uses' = [uses EXCEPT ![p] = @ + 1]
    /\ PerformRequestPost(p, values[p])
    /\ UNCHANGED <<client, call, redirectUrl, message, payment, populates>>

(***************************************************************************)
(* The second half of PerformRequest: PostForm returns, then ReadAll.      *)
(***************************************************************************)
\* formResponse: the HTTP exchange of p's own request.
FormResponse(p) == conn[p]

\* PostForm returns: with an error, which PerformRequest returns at once, or
\* with a response whose body is still to be read; the outcome is the
\* remote's choice.
PostFormReturn(p) ==
    /\ pc[p] = "wait"
    /\ \/ /\ conn' = [conn EXCEPT ![p] = [NoConn EXCEPT !.postErr = TransportError]]
          /\ ret' = [ret EXCEPT ![p] = PerformRequestResult(client, FormResponse(p)')]
          /\ pc' = [pc EXCEPT ![p] = "done"]
       \/ /\ pc' = [pc EXCEPT ![p] = "read"]
          /\ UNCHANGED <<conn, ret>>
    /\ UNCHANGED <<client, call, values, given, uses, posted, redirectUrl, message,
                   payment, populates>>

\* ioutil.ReadAll returns: with an error, which PerformRequest returns, or
\* with the body, which PerformRequest decodes and returns the result of.
ReadAllReturn(p, bodies) ==
    /\ pc[p] = "read"
    /\ \E cn \in {[NoConn EXCEPT !.readErr = [kind |-> "io", text |-> Bytes("unexpected EOF")]]}
                 \cup {[NoConn EXCEPT !.body = b] : b \in bodies} :
         conn' = [conn EXCEPT ![p] = cn]
    /\ ret' = [ret EXCEPT ![p] = PerformRequestResult(client, FormResponse(p)')]
    /\ pc' = [pc EXCEPT ![p] = "done"]
    /\ UNCHANGED <<client, call, values, given, uses, posted, redirectUrl, message,
                   payment, populates>>

\* The caller is finished with the results of the call.
Finish(p) ==
    /\ pc[p] = "done"
    /\ pc' = [pc EXCEPT ![p] = "idle"]
    /\ call' = [call EXCEPT ![p] = NoCall]
    /\ values' = [values EXCEPT ![p] = EmptyValues]
    /\ given' = [given EXCEPT ![p] = EmptyValues]
    /\ uses' = [uses EXCEPT ![p] = 0]
    /\ posted' = [posted EXCEPT ![p] = <<>>]
    /\ conn' = [conn EXCEPT ![p] = NoConn]
    /\ ret' = [ret EXCEPT ![p] = NoReturn]
    /\ redirectUrl' = [redirectUrl EXCEPT ![p] = <<>>]
    /\ message' = [message EXCEPT ![p] = <<>>]
    /\ populates' = [populates EXCEPT ![p] = 0]
    /\ UNCHANGED <<client, payment>>

(***************************************************************************)
(* The helpers a caller applies to what PerformRequest returned.           *)
(***************************************************************************)
CallCheckoutUrl(p) ==
    /\ pc[p] = "done"
    /\ ~ret[p].response.isNil
    /\ redirectUrl[p] = <<>>
    /\ redirectUrl' = [redirectUrl EXCEPT ![p] = CheckoutUrl(ret[p].response)]
    /\ UNCHANGED <<client, pc, call, values, given, uses, posted, conn, ret, message,
                   payment, populates>>

CallError(p) ==
    /\ pc[p] = "done"
    /\ ret[p].err.kind = "PayPalError"
    /\ message[p] = <<>>
    /\ message' = [message EXCEPT ![p] = Error(ret[p].err)]
    /\ UNCHANGED <<client, pc, call, values, given, uses, posted, conn, ret,
                   redirectUrl, payment, populates>>

CallPopulate(p) ==
    /\ pc[p] = "done"
    /\ ~ret[p].response.isNil
    /\ populates[p] < 2
    /\ payment' = [payment EXCEPT ![p] = Populate(@, ret[p].response.Values)]
    /\ populates' = [populates EXCEPT ![p] = @ + 1]
    /\ UNCHANGED <<client, pc, call, values, given, uses, posted, conn, ret,
                   redirectUrl, message>>

(***************************************************************************)
(* Spec: the goroutines of Procs share the client and call it repeatedly.  *)
(* The arguments and the replies of goroutine p are tagged with p.         *)
(***************************************************************************)
TokenOf(p) == Bytes("EC-") \o Itoa(p)
PayerOf(p) == Bytes("PAYER") \o Itoa(p)
ReturnOf(p) == Bytes("https://shop.example/return/") \o Itoa(p)
CancelOf(p) == Bytes("https://shop.example/cancel/") \o Itoa(p)

OrderOf(p) ==
    [SubTotal |-> 1000, Shipping |-> 250, Discount |-> 150, Total |-> 1100,
     CurrencyCode |-> Bytes("USD"), ReturnUrl |-> ReturnOf(p), CancelUrl |-> CancelOf(p)]

\* The bodies the remote may answer the request of p with.
RepliesTo(p) ==
    {Bytes("ACK=Success&CORRELATIONID=c0ffee") \o Itoa(p) \o Bytes("&TOKEN=") \o QueryEscape(TokenOf(p)),
     Bytes("ACK=Failure&CORRELATIONID=c0ffee") \o Itoa(p)
        \o Bytes("&L_ERRORCODE0=10410&L_SHORTMESSAGE0=Invalid+token")}

\* The arguments goroutine p calls the client with and the bodies it is
\* answered with, fixed before the goroutines start.
Callers ==
    [p \in Procs |->
        [orders |-> {OrderOf(p)},
         goods |-> {<<[Id |-> Bytes("SKU-") \o Itoa(p), Name |-> Bytes("Pen"),
                       Amount |-> 500, Quantity |-> 2]>>},
         digitalGoods |-> {<<[Name |-> Bytes("Song ") \o Itoa(p), Amount |-> 99, Quantity |-> 1]>>},
         forms |-> {Add(Set(EmptyValues, Bytes("METHOD"), Bytes("GetBalance")),
                        Bytes("INVNUM"), Bytes("INV-") \o Itoa(p))},
         token |-> TokenOf(p), tokens |-> {TokenOf(p)}, payerId |-> PayerOf(p),
         descriptions |-> {Bytes("Order")}, currencyCode |-> Bytes("USD"),
         returnURL |-> ReturnOf(p), cancelURL |-> CancelOf(p),
         paymentAmounts |-> {99}, largeAmounts |-> {99, 120000}, finalPaymentAmounts |-> {1100},
         replies |-> RepliesTo(p)]]

Next ==
    \E p \in Procs :
        \/ SetExpressCheckout(p, Callers[p].orders, Callers[p].goods)
        \/ SetExpressCheckoutDigitalGoods(p, Callers[p].paymentAmounts, Callers[p].currencyCode,
                                          Callers[p].returnURL, Callers[p].cancelURL,
                                          Callers[p].digitalGoods)
        \/ DoExpressCheckoutSale(p, Callers[p].token, Callers[p].payerId,
                                 Callers[p].currencyCode, Callers[p].finalPaymentAmounts)
        \/ GetExpressCheckoutDetails(p, Callers[p].tokens)
        \/ CallPerformRequest(p, Callers[p].forms)
        \/ CallPerformRequestAgain(p)
        \/ PostFormReturn(p)
        \/ ReadAllReturn(p, Callers[p].replies)
        \/ Finish(p)

Spec == Init /\ [][Next]_vars

(***************************************************************************)
(* SpecBuild: one goroutine calls the two SetExpressCheckout builders with *)
(* every order and every line-item sequence of the bounds.                 *)
(***************************************************************************)
Goods ==
    {[Id |-> Bytes("SKU-1"), Name |-> Bytes("Pen"), Amount |-> 250, Quantity |-> 2],
     [Id |-> <<>>, Name |-> Bytes("DISCOUNT"), Amount |-> 100, Quantity |-> 1],
     [Id |-> <<>>, Name |-> Bytes("Ink & Paper"), Amount |-> 5, Quantity |-> 10]}

\* The sequences of at most MaxGoods elements of S.
SeqsUpTo(S) == UNION {[1 .. k -> S] : k \in 0 .. MaxGoods}

Orders == {[OrderOf(1) EXCEPT !.Discount = d] : d \in {-100, 0, 1, 150}}
GoodsSeqs == SeqsUpTo(Goods)
DigitalGoodsSeqs ==
    SeqsUpTo({[Name |-> g.Name, Amount |-> g.Amount, Quantity |-> g.Quantity] : g \in Goods})

NextBuild ==
    \E p \in {1} :
        \/ SetExpressCheckout(p, Orders, GoodsSeqs)
        \/ SetExpressCheckoutDigitalGoods(p, Callers[p].largeAmounts, Callers[p].currencyCode,
                                          Callers[p].returnURL, Callers[p].cancelURL,
                                          DigitalGoodsSeqs)
        \/ PostFormReturn(p)
        \/ ReadAllReturn(p, Callers[p].replies)

SpecBuild == Init /\ [][NextBuild]_vars

(***************************************************************************)
(* SpecParse: one goroutine makes one call and the remote answers with any *)
(* body made of at most MaxPairs of the fragments below; the caller then   *)
(* asks for the checkout URL and for the message of the error.             *)
(***************************************************************************)
RECURSIVE Join(_)
Join(parts) ==
    IF Len(parts) = 0 THEN <<>>
    ELSE IF Len(parts) = 1 THEN parts[1]
    ELSE parts[1] \o Bytes("&") \o Join(Tail(parts))

\* The bodies made of at most MaxPairs elements of F.
BodiesOf(F) == {Join(parts) : parts \in UNION {[1 .. k -> F] : k \in 0 .. MaxPairs}}

ParseBodies ==
    BodiesOf(
        {Bytes("ACK=Success"), Bytes("ACK=Failure"), Bytes("ACK=FAILUREWITHWARNING"),
         Bytes("ACK=Warning"),
         Bytes("ACK=FA%C4%B0LURE"),            \* FA, U+0130, LURE
         Bytes("L_ERRORCODE0=10410"), Bytes("L_ERRORCODE0="),
         Bytes("L_SHORTMESSAGE0=Invalid+token"),
         Bytes("L_LONGMESSAGE0=The%20token%20is%20invalid&L_SEVERITYCODE0=Error"),
         Bytes("TOKEN=EC-5YJ748178G052312W"),
         Bytes("TOKEN=EC+5%266%3D7%0A%C3%A9"), \* EC 5&6=7, a line feed, U+00E9
         Bytes("TOKEN=%zz"),
         Bytes("TOKEN=EC-1;x=1"),
         Bytes("CORRELATIONID=c0ffee&TIMESTAMP=2013-01-02T03%3A04%3A05Z&VERSION=94&BUILD=5715372")})

NextParse ==
    \E p \in {1} :
        \/ GetExpressCheckoutDetails(p, Callers[p].tokens)
        \/ PostFormReturn(p)
        \/ ReadAllReturn(p, ParseBodies)
        \/ CallCheckoutUrl(p)
        \/ CallError(p)

SpecParse == Init /\ [][NextParse]_vars

(***************************************************************************)
(* SpecPopulate: one goroutine executes a payment and projects the reply   *)
(* into a PayPalPaymentResponse, fresh or used, once or twice.             *)
(***************************************************************************)
\* An amount of 901 digits before the exponent: a one and 900 zeros, times
\* 10^(-500), which writes 10^400.
LongAmount == Bytes("1") \o [i \in 1 .. 900 |-> Byte("0")] \o Bytes("e-500")

InitPopulate ==
    /\ InitWith({ZeroPayment, UsedPayment})
    /\ \A p \in Procs \ {1} : payment[p] = ZeroPayment

PaymentBodies ==
    BodiesOf(
        {Bytes("ACK=Success"), Bytes("PAYMENTINFO_0_AMT=") \o LongAmount,
         Bytes("PAYMENTINFO_0_TRANSACTIONID=9AB12345CD678901E&PAYMENTINFO_0_PAYMENTSTATUS=Completed"),
         Bytes("PAYMENTINFO_0_CURRENCYCODE=USD&PAYMENTINFO_0_PAYMENTTYPE=instant&PAYMENTINFO_0_REASONCODE=None"),
         Bytes("PAYMENTINFO_0_AMT=12.50"), Bytes("PAYMENTINFO_0_AMT=abc"),
         Bytes("PAYMENTINFO_0_AMT="), Bytes("PAYMENTINFO_0_AMT=1e400"),
         Bytes("PAYMENTINFO_0_AMT=-3"), Bytes("PAYMENTINFO_0_AMT=12%2C50"),
         Bytes("PAYMENTINFO_0_AMT=0x1p-2"), Bytes("PAYMENTINFO_0_AMT=1_000"),
         Bytes("PAYMENTINFO_0_FEEAMT=0.30"), Bytes("PAYMENTINFO_0_FEEAMT=-1E999"),
         Bytes("PAYMENTINFO_0_FEEAMT=1.2.3"), Bytes("PAYMENTINFO_0_FEEAMT=1e-400"),
         Bytes("PAYMENTINFO_0_AMT=NaN"), Bytes("PAYMENTINFO_0_FEEAMT=-Infinity")})

NextPopulate ==
    \E p \in {1} :
        \/ DoExpressCheckoutPayment(p, Callers[p].token, Callers[p].payerId, Callers[p].descriptions,
                                    Callers[p].currencyCode, Callers[p].finalPaymentAmounts)
        \/ PostFormReturn(p)
        \/ ReadAllReturn(p, PaymentBodies)
        \/ CallPopulate(p)

SpecPopulate == InitPopulate /\ [][NextPopulate]_vars

(***************************************************************************)
(* The properties checked.                                                 *)
(***************************************************************************)
Returned(p) == pc[p] = "done"
BodyRead(p) == Returned(p) /\ conn[p].postErr = NilError /\ conn[p].readErr = NilError
PostedForm(p) == posted[p][1].form
IsFailureAck(ack) ==
    ToLowerEquals(ack, Bytes("failure")) \/ ToLowerEquals(ack, Bytes("failurewithwarning"))
HasPrefix(s, prefix) == Len(s) >= Len(prefix) /\ SubSeq(s, 1, Len(prefix)) = prefix

\* The response and the error the claims expect for a decoded mapping m.
ExpectedResponse(m) ==
    [isNil |-> FALSE, Ack |-> Get(m, Bytes("ACK")), CorrelationId |-> Get(m, Bytes("CORRELATIONID")),
     Timestamp |-> Get(m, Bytes("TIMESTAMP")), Version |-> Get(m, Bytes("VERSION")),
     Build |-> Get(m, Bytes("BUILD")), Token |-> Get(m, Bytes("TOKEN")), Values |-> m,
     usedSandbox |-> client.usesSandbox]
ExpectedError(m) ==
    [kind |-> "PayPalError", Ack |-> Get(m, Bytes("ACK")), ErrorCode |-> Get(m, Bytes("L_ERRORCODE0")),
     ShortMessage |-> Get(m, Bytes("L_SHORTMESSAGE0")), LongMessage |-> Get(m, Bytes("L_LONGMESSAGE0")),
     SeverityCode |-> Get(m, Bytes("L_SEVERITYCODE0"))]

\* C1 as claimed: for every body read, PerformRequest returns the structured
\* error with a non-nil Response exactly when the mapping contains the field
\* L_ERRORCODE0 or ACK is failure/failurewithwarning in any case, and in
\* every other case the populated Response and no error.
C1_Original ==
    \A p \in Procs :
        BodyRead(p) =>
            LET m == ParseQuery(conn[p].body).values
            IN  IF Bytes("L_ERRORCODE0") \in DOMAIN m \/ IsFailureAck(Get(m, Bytes("ACK")))
                THEN ret[p].err = ExpectedError(m) /\ ~ret[p].response.isNil
                ELSE ret[p].err = NilError /\ ret[p].response = ExpectedResponse(m)

\* C1 as amended: for every body read that parses, PerformRequest returns the
\* populated Response, with the structured error exactly when the first value
\* of L_ERRORCODE0 is non-empty or strings.ToLower of ACK is failure or
\* failurewithwarning, and with no error otherwise; for a body that does not
\* parse (a malformed escape, or a semicolon in a pair) it returns a Response
\* holding only the environment flag and the parse error.
C1_Decoding ==
    \A p \in Procs :
        BodyRead(p) =>
            LET parsed == ParseQuery(conn[p].body)
                m == parsed.values
            IN  IF parsed.err # NilError
                THEN /\ ret[p].err = parsed.err
                     /\ ret[p].err.kind \in {"EscapeError", "errorString"}
                     /\ (ret[p].err.kind = "errorString")
                          <=> Contains(conn[p].body, Byte(";"))
                     /\ ret[p].response = ExpectedResponse(EmptyValues)
                ELSE /\ ret[p].response = ExpectedResponse(m)
                     /\ ret[p].err =
                          IF Get(m, Bytes("L_ERRORCODE0")) # <<>> \/ IsFailureAck(Get(m, Bytes("ACK")))
                          THEN ExpectedError(m) ELSE NilError

\* A reply that fails by its acknowledgement alone, spelled in capitals.
C1_Witness ==
    \E p \in Procs :
        /\ BodyRead(p)
        /\ ret[p].err.kind = "PayPalError"
        /\ ret[p].err.ErrorCode = <<>>
        /\ ret[p].err.Ack = Bytes("FAILUREWITHWARNING")
        /\ ret[p].response.Token # <<>>

\* C2: when the POST or the read of the body fails, PerformRequest, and so
\* each builder, returns a nil Response and the very error of the transport
\* or of the read, not a PayPalError.
C2_TransportFailure ==
    \A p \in Procs :
        Returned(p) =>
            /\ conn[p].postErr # NilError =>
                 ret[p] = [response |-> [isNil |-> TRUE], err |-> conn[p].postErr]
            /\ (conn[p].postErr = NilError /\ conn[p].readErr # NilError) =>
                 ret[p] = [response |-> [isNil |-> TRUE], err |-> conn[p].readErr]
            /\ (conn[p].postErr # NilError \/ conn[p].readErr # NilError) =>
                 ret[p].err.kind # "PayPalError"

\* A builder whose reply could not be read.
C2_Witness ==
    \E p \in Procs :
        /\ Returned(p)
        /\ call[p].op = "SetExpressCheckoutDigitalGoods"
        /\ conn[p].readErr # NilError
        /\ ret[p].err = conn[p].readErr

\* The field names of a request.
FixedFields ==
    {Bytes("METHOD"), Bytes("PAYMENTREQUEST_0_ITEMAMT"), Bytes("PAYMENTREQUEST_0_SHIPPINGAMT"),
     Bytes("PAYMENTREQUEST_0_AMT"), Bytes("PAYMENTREQUEST_0_PAYMENTACTION"),
     Bytes("PAYMENTREQUEST_0_CURRENCYCODE"), Bytes("RETURNURL"), Bytes("CANCELURL"), Bytes("REQCONFIRMSHIPPING"),
     Bytes("NOSHIPPING"), Bytes("SOLUTIONTYPE"), Bytes("TOKEN"), Bytes("PAYERID"), Bytes("INVNUM")}
CredentialFields == {Bytes("USER"), Bytes("PWD"), Bytes("SIGNATURE"), Bytes("VERSION")}
ItemFields ==
    {Bytes("L_PAYMENTREQUEST_0_NUMBER"), Bytes("L_PAYMENTREQUEST_0_NAME"), Bytes("L_PAYMENTREQUEST_0_AMT"),
     Bytes("L_PAYMENTREQUEST_0_QTY"), Bytes("L_PAYMENTREQUEST_0_ITEMCATEGORY")}
\* The line-item fields of the items lo .. hi.
ItemFieldsOf(lo, hi) == {f \o NatStr(i) : f \in ItemFields, i \in lo .. hi}

\* The text of a negated discount.
NegatedDiscount(d) ==
    CASE d = 1 -> Bytes("-0.01")
      [] d = 150 -> Bytes("-1.50")

\* C3: the request of SetExpressCheckout for n goods holds, when
\* order.Discount > 0, exactly one more line item, at index n, named DISCOUNT
\* with the negated discount as amount and quantity 1, and when
\* order.Discount <= 0 no line-item field of index n or higher.
C3_Discount ==
    \A p \in Procs :
        (pc[p] # "idle" /\ call[p].op = "SetExpressCheckout") =>
            LET form == PostedForm(p)
                n == Len(call[p].goods)
                d == call[p].order.Discount
            IN  IF d > 0
                THEN /\ form[Bytes("L_PAYMENTREQUEST_0_NAME") \o NatStr(n)] = <<Bytes("DISCOUNT")>>
                     /\ form[Bytes("L_PAYMENTREQUEST_0_AMT") \o NatStr(n)] = <<NegatedDiscount(d)>>
                     /\ form[Bytes("L_PAYMENTREQUEST_0_QTY") \o NatStr(n)] = <<Bytes("1")>>
                     /\ (Bytes("L_PAYMENTREQUEST_0_NUMBER") \o NatStr(n)) \notin DOMAIN form
                     /\ DOMAIN form \subseteq
                          FixedFields \cup CredentialFields \cup ItemFieldsOf(0, n)
                ELSE DOMAIN form \subseteq
                          FixedFields \cup CredentialFields \cup ItemFieldsOf(0, n - 1)

\* A discounted order whose first real item is itself named DISCOUNT.
C3_Witness ==
    \E p \in Procs :
        /\ pc[p] = "done"
        /\ call[p].op = "SetExpressCheckout"
        /\ call[p].order.Discount > 0
        /\ Len(call[p].goods) = 2
        /\ call[p].goods[1].Name = Bytes("DISCOUNT")
        /\ Len(PostedForm(p)[Bytes("L_PAYMENTREQUEST_0_NAME2")]) = 1

\* The fields of a request whose name starts with L_PAYMENTREQUEST_0_NAME.
NameFields(form) == {k \in DOMAIN form : HasPrefix(k, Bytes("L_PAYMENTREQUEST_0_NAME"))}
IsSetCall(p) ==
    /\ pc[p] # "idle"
    /\ call[p].op \in {"SetExpressCheckout", "SetExpressCheckoutDigitalGoods"}
    /\ Len(call[p].goods) > 0

\* C4 as claimed: for a non-empty line-item sequence the request holds as
\* many L_PAYMENTREQUEST_0_NAME{i} fields as the sequence has items, at the
\* indices 0 .. length-1, item i supplying field i.
C4_Original ==
    \A p \in Procs :
        IsSetCall(p) =>
            LET form == PostedForm(p)
                goods == call[p].goods
            IN  /\ Cardinality(NameFields(form)) = Len(goods)
                /\ NameFields(form) =
                     {Bytes("L_PAYMENTREQUEST_0_NAME") \o NatStr(i) : i \in 0 .. Len(goods) - 1}
                /\ \A i \in 0 .. Len(goods) - 1 :
                     form[Bytes("L_PAYMENTREQUEST_0_NAME") \o NatStr(i)] = <<goods[i + 1].Name>>

\* C4 as amended: the request holds as many L_PAYMENTREQUEST_0_NAME{i}
\* fields as the sequence has items, and one more (the DISCOUNT item, at index
\* length) for SetExpressCheckout with order.Discount > 0; the indices are
\* 0 .. count-1 and item i supplies field i for every i below the length.
C4_NameFields ==
    \A p \in Procs :
        IsSetCall(p) =>
            LET form == PostedForm(p)
                goods == call[p].goods
                extra == IF call[p].op = "SetExpressCheckout" /\ call[p].order.Discount > 0
                         THEN 1 ELSE 0
                count == Len(goods) + extra
            IN  /\ Cardinality(NameFields(form)) = count
                /\ NameFields(form) =
                     {Bytes("L_PAYMENTREQUEST_0_NAME") \o NatStr(i) : i \in 0 .. count - 1}
                /\ \A i \in 0 .. Len(goods) - 1 :
                     form[Bytes("L_PAYMENTREQUEST_0_NAME") \o NatStr(i)] = <<goods[i + 1].Name>>

\* Two goods and a discount: three name fields.
C4_Witness ==
    \E p \in Procs :
        /\ IsSetCall(p)
        /\ call[p].op = "SetExpressCheckout"
        /\ call[p].order.Discount > 0
        /\ Len(call[p].goods) = 2
        /\ Cardinality(NameFields(PostedForm(p))) = 3

\* Whether every character of s is unreserved in a query component.
RECURSIVE Unreserved(_)
Unreserved(s) ==
    \/ Len(s) = 0
    \/ /\ Contains(Bytes("ABCDEFGHIJKLMNOPQRSTUVWXYZabcdefghijklmnopqrstuvwxyz0123456789-_.~"),
                   Head(s))
       /\ Unreserved(Tail(s))

\* C5: CheckoutUrl gives the sandbox checkout base exactly when the client
\* was a sandbox client when PerformRequest built the Response, which is
\* exactly when the request went to the sandbox NVP endpoint, and the
\* production base otherwise, followed by the query that carries
\* cmd=_express-checkout and then token=<the Response's Token>.
C5_CheckoutUrl ==
    \A p \in Procs :
        redirectUrl[p] # <<>> =>
            LET parts == Cut(redirectUrl[p], Byte("?"))
                token == ret[p].response.Token
            IN  /\ parts.found
                /\ parts.before = IF client.usesSandbox
                                  THEN Bytes("https://www.sandbox.paypal.com/cgi-bin/webscr")
                                  ELSE Bytes("https://www.paypal.com/cgi-bin/webscr")
                /\ (parts.before = Bytes("https://www.sandbox.paypal.com/cgi-bin/webscr"))
                     <=> (posted[p][1].url = Bytes("https://api-3t.sandbox.paypal.com/nvp"))
                /\ (parts.before = Bytes("https://www.paypal.com/cgi-bin/webscr"))
                     <=> (posted[p][1].url = Bytes("https://api-3t.paypal.com/nvp"))
                /\ HasPrefix(parts.after, Bytes("cmd=_express-checkout&token="))
                /\ ParseQuery(parts.after) =
                     [values |-> [k \in {Bytes("cmd"), Bytes("token")} |->
                                    IF k = Bytes("cmd") THEN <<Bytes("_express-checkout")>> ELSE <<token>>],
                      err |-> NilError]
                /\ Unreserved(token) =>
                     parts.after = Bytes("cmd=_express-checkout&token=") \o token

\* The checkout URL of a sandbox response whose token needs escaping.
C5_Witness ==
    \E p \in Procs :
        /\ redirectUrl[p] # <<>>
        /\ client.usesSandbox
        /\ ret[p].response.Token = Bytes("EC 5&6=7") \o <<10, 195, 169>>

\* C6 as claimed: the message of a PayPalError that PerformRequest produced
\* is the maintenance fallback when none of Ack, ErrorCode, ShortMessage,
\* LongMessage and SeverityCode is populated, and only then.
C6_Original ==
    \A p \in Procs :
        message[p] # <<>> =>
            LET e == ret[p].err
            IN  (message[p] = MaintenanceMessage)
                  <=> (e.Ack = <<>> /\ e.ErrorCode = <<>> /\ e.ShortMessage = <<>>
                       /\ e.LongMessage = <<>> /\ e.SeverityCode = <<>>)

\* C6 as amended: the message is the maintenance fallback exactly when Ack is
\* empty and ErrorCode or ShortMessage is empty, whatever LongMessage and
\* SeverityCode hold; otherwise it is "PayPal Error <code>: <short>" when
\* both are populated and the Ack when they are not.
C6_Message ==
    \A p \in Procs :
        message[p] # <<>> =>
            LET e == ret[p].err
            IN  /\ (message[p] = Bytes("PayPal is undergoing maintenance.") \o <<10>>
                                       \o Bytes("Please try again later."))
                     <=> (e.Ack = <<>> /\ (e.ErrorCode = <<>> \/ e.ShortMessage = <<>>))
                /\ (e.ErrorCode # <<>> /\ e.ShortMessage # <<>>) =>
                     message[p] = Bytes("PayPal Error ") \o e.ErrorCode \o Bytes(": ") \o e.ShortMessage
                /\ ((e.ErrorCode = <<>> \/ e.ShortMessage = <<>>) /\ e.Ack # <<>>) =>
                     message[p] = e.Ack

\* An error with a code, a long message and a severity, and the fallback as
\* its message.
C6_Witness ==
    \E p \in Procs :
        /\ message[p] = MaintenanceMessage
        /\ ret[p].err.ErrorCode = Bytes("10410")
        /\ ret[p].err.LongMessage # <<>>
        /\ ret[p].err.SeverityCode # <<>>

\* The texts of the replies that strconv.ParseFloat parses, returning no
\* error, and the float64 it returns for each: the nearest to the number
\* written, but for LongAmount, whose digits past the first 800 are not
\* counted, and for the names of the not-a-number and of the infinities.
\* Every other text of the replies does not parse: ParseFloat returns an
\* error for it, ErrSyntax or, for 1e400 and -1E999, ErrRange.
NumberTexts ==
    {Bytes("12.50"), Bytes("-3"), Bytes("0.30"), Bytes("0x1p-2"), Bytes("1_000"),
     Bytes("1e-400"), LongAmount, Bytes("NaN"), Bytes("-Infinity")}
NumberOf(text) ==
    CASE text = Bytes("12.50") ->       \* 1.5625 * 2^3
            [neg |-> FALSE, exp |-> 1026, frac |-> <<9, 0, 0, 0>>]
      [] text = Bytes("-3") ->          \* -1.5 * 2^1
            [neg |-> TRUE, exp |-> 1024, frac |-> <<8, 0, 0, 0>>]
      [] text = Bytes("0.30") ->        \* 0x3FD3333333333333
            [neg |-> FALSE, exp |-> 1021, frac |-> <<3, 13107, 13107, 13107>>]
      [] text = Bytes("0x1p-2") ->      \* 0.25
            [neg |-> FALSE, exp |-> 1021, frac |-> <<0, 0, 0, 0>>]
      [] text = Bytes("1_000") ->       \* 1000 = 1.953125 * 2^9
            [neg |-> FALSE, exp |-> 1032, frac |-> <<15, 16384, 0, 0>>]
      [] text = Bytes("1e-400") ->      \* below the smallest float64
            [neg |-> FALSE, exp |-> 0, frac |-> <<0, 0, 0, 0>>]
      [] text = LongAmount ->           \* 1e299: the point is placed after the
                                        \* 800 digits kept
            [neg |-> FALSE, exp |-> 2016, frac |-> <<3, 7421, 14745, 63408>>]
      [] text = Bytes("NaN") ->         \* 0x7FF8000000000001
            [neg |-> FALSE, exp |-> 2047, frac |-> <<8, 0, 0, 1>>]
      [] text = Bytes("-Infinity") ->
            [neg |-> TRUE, exp |-> 2047, frac |-> <<0, 0, 0, 0>>]
FloatZero == [neg |-> FALSE, exp |-> 0, frac |-> <<0, 0, 0, 0>>]

\* The string fields of a PayPalPaymentResponse populated from m.
StringsProjected(pr, m) ==
    /\ pr.TransactionId = Get(m, Bytes("PAYMENTINFO_0_TRANSACTIONID"))
    /\ pr.Status = Get(m, Bytes("PAYMENTINFO_0_PAYMENTSTATUS"))
    /\ pr.Currency = Get(m, Bytes("PAYMENTINFO_0_CURRENCYCODE"))
    /\ pr.Type = Get(m, Bytes("PAYMENTINFO_0_PAYMENTTYPE"))
    /\ pr.ReasonCode = Get(m, Bytes("PAYMENTINFO_0_REASONCODE"))

\* C7 as claimed: after Populate, once or twice, on a struct fresh or used,
\* every string field is the first value of its key, and Amount and Fee are
\* the parsed value of their text when it parses and 0 for every text that
\* does not parse (absent, empty, not a number, or a number that
\* strconv.ParseFloat rejects as out of range).
C7_Original ==
    \A p \in Procs :
        populates[p] > 0 =>
            LET m == ret[p].response.Values
                amt == Get(m, Bytes("PAYMENTINFO_0_AMT"))
                fee == Get(m, Bytes("PAYMENTINFO_0_FEEAMT"))
            IN  /\ StringsProjected(payment[p], m)
                /\ payment[p].Amount =
                     IF amt \in NumberTexts THEN NumberOf(amt) ELSE FloatZero
                /\ payment[p].Fee =
                     IF fee \in NumberTexts THEN NumberOf(fee) ELSE FloatZero

\* C8: every call issues exactly one POST, whatever its outcome, to the
\* sandbox NVP endpoint exactly when the client is a sandbox client and to
\* the production NVP endpoint otherwise.
C8_OnePost ==
    \A p \in Procs :
        /\ pc[p] = "idle" => Len(posted[p]) = 0
        /\ pc[p] # "idle" =>
             /\ Len(posted[p]) = 1
             /\ posted[p][1].url = IF client.usesSandbox
                                   THEN Bytes("https://api-3t.sandbox.paypal.com/nvp")
                                   ELSE Bytes("https://api-3t.paypal.com/nvp")

\* A sandbox call that ended in a remote-declared failure while another
\* ended in a transport failure.
C8_Witness ==
    \E p, q \in Procs :
        /\ Returned(p) /\ Returned(q)
        /\ client.usesSandbox
        /\ ret[p].err.kind = "PayPalError"
        /\ ret[q].err = TransportError
        /\ Len(posted[p]) = 1 /\ Len(posted[q]) = 1

\* The fields of the request of each builder: those it writes for its own
\* arguments and the credentials.
OwnFields ==
    [op \in {"GetExpressCheckoutDetails", "DoExpressCheckoutPayment",
             "SetExpressCheckoutDigitalGoods", "SetExpressCheckout"} |->
      {Bytes("USER"), Bytes("PWD"), Bytes("SIGNATURE"), Bytes("VERSION")} \cup
      CASE op = "GetExpressCheckoutDetails" -> {Bytes("METHOD"), Bytes("TOKEN")}
        [] op = "DoExpressCheckoutPayment" ->
              {Bytes("METHOD"), Bytes("TOKEN"), Bytes("PAYERID"), Bytes("PAYMENTREQUEST_0_PAYMENTACTION"),
               Bytes("PAYMENTREQUEST_0_CURRENCYCODE"), Bytes("PAYMENTREQUEST_0_AMT")}
        [] op = "SetExpressCheckoutDigitalGoods" ->
              {Bytes("METHOD"), Bytes("PAYMENTREQUEST_0_AMT"), Bytes("PAYMENTREQUEST_0_PAYMENTACTION"),
               Bytes("PAYMENTREQUEST_0_CURRENCYCODE"), Bytes("RETURNURL"), Bytes("CANCELURL"),
               Bytes("REQCONFIRMSHIPPING"), Bytes("NOSHIPPING"), Bytes("SOLUTIONTYPE"),
               Bytes("L_PAYMENTREQUEST_0_NAME0"), Bytes("L_PAYMENTREQUEST_0_AMT0"),
               Bytes("L_PAYMENTREQUEST_0_QTY0"), Bytes("L_PAYMENTREQUEST_0_ITEMCATEGORY0")}
        [] op = "SetExpressCheckout" ->
              {Bytes("METHOD"), Bytes("PAYMENTREQUEST_0_ITEMAMT"), Bytes("PAYMENTREQUEST_0_SHIPPINGAMT"),
               Bytes("PAYMENTREQUEST_0_AMT"), Bytes("PAYMENTREQUEST_0_PAYMENTACTION"),
               Bytes("PAYMENTREQUEST_0_CURRENCYCODE"), Bytes("RETURNURL"), Bytes("CANCELURL"),
               Bytes("REQCONFIRMSHIPPING"), Bytes("NOSHIPPING"), Bytes("SOLUTIONTYPE"),
               Bytes("L_PAYMENTREQUEST_0_NUMBER0"), Bytes("L_PAYMENTREQUEST_0_NAME0"),
               Bytes("L_PAYMENTREQUEST_0_AMT0"), Bytes("L_PAYMENTREQUEST_0_QTY0"),
               Bytes("L_PAYMENTREQUEST_0_NAME1"), Bytes("L_PAYMENTREQUEST_0_AMT1"),
               Bytes("L_PAYMENTREQUEST_0_QTY1")}]

\* The arguments goroutine p gave, as they stand in its request.
OwnArguments(p, form) ==
    CASE call[p].op \in {"GetExpressCheckoutDetails", "DoExpressCheckoutPayment"} ->
            form[Bytes("TOKEN")] = <<Bytes("EC-") \o NatStr(p)>>
      [] call[p].op = "SetExpressCheckoutDigitalGoods" ->
            /\ form[Bytes("RETURNURL")] = <<Bytes("https://shop.example/return/") \o NatStr(p)>>
            /\ form[Bytes("L_PAYMENTREQUEST_0_NAME0")] = <<Bytes("Song ") \o NatStr(p)>>
      [] call[p].op = "SetExpressCheckout" ->
            /\ form[Bytes("CANCELURL")] = <<Bytes("https://shop.example/cancel/") \o NatStr(p)>>
            /\ form[Bytes("L_PAYMENTREQUEST_0_NUMBER0")] = <<Bytes("SKU-") \o NatStr(p)>>

C9_State ==
    \A p \in Procs :
        (pc[p] # "idle" /\ call[p].op # "PerformRequest") =>
            LET form == PostedForm(p)
            IN  /\ DOMAIN form = OwnFields[call[p].op]
                /\ \A k \in DOMAIN form : Len(form[k]) = 1
                /\ OwnArguments(p, form)
                /\ form[Bytes("USER")] = <<Bytes("api_user")>>
                /\ form[Bytes("PWD")] = <<Bytes("api_pwd")>>
                /\ form[Bytes("SIGNATURE")] = <<Bytes("api_sig")>>
                /\ BodyRead(p) =>
                     /\ ret[p].response.CorrelationId = Bytes("c0ffee") \o NatStr(p)
                     /\ ret[p].response.Values = ParseQuery(conn[p].body).values
                     /\ ret[p].response.usedSandbox = client.usesSandbox

\* C9: in every interleaving of the builders on one shared client, the
\* request of each call holds exactly the fields of its own arguments and
\* the credentials, each once, its Response comes from the body of its own
\* request, and the client's fields never change.
C9_Isolation == [](C9_State /\ client \in Clients) /\ [][client' = client]_vars

\* Two builders at once: one waits for the body of its response while the
\* other has its own token back.
C9_Witness ==
    \E p, q \in Procs :
        /\ p # q
        /\ pc[p] = "read" /\ call[p].op = "SetExpressCheckout"
        /\ Returned(q) /\ call[q].op = "GetExpressCheckoutDetails"
        /\ ~ret[q].response.isNil
        /\ ret[q].response.Token = TokenOf(q)

\* C10 as claimed: every request posted carries exactly one value for each
\* of USER, PWD, SIGNATURE and VERSION, the client's credentials and "94",
\* also when one parameter set is handed to PerformRequest again, and the
\* caller's parameter set holds after the call the fields it held before.
C10_Claim ==
    \A p \in Procs :
        /\ pc[p] # "idle" =>
             /\ PostedForm(p)[Bytes("USER")] = <<client.username>>
             /\ PostedForm(p)[Bytes("PWD")] = <<client.password>>
             /\ PostedForm(p)[Bytes("SIGNATURE")] = <<client.signature>>
             /\ PostedForm(p)[Bytes("VERSION")] = <<Bytes("94")>>
        /\ Returned(p) => values[p] = given[p]


=============================================================================
